---- MODULE Spec2Model ----
(***************************************************************************)
(* A model of the resume/job matching core of ayushkamni/resumeselector:   *)
(* text cleaning, skill extraction, hybrid similarity scoring, skill gap   *)
(* analysis, readability and improvement suggestions.                      *)
(*                                                                         *)
(* Texts are strings, characters are one-character strings.  Every public  *)
(* function of the source is an operator of the same name; every           *)
(* specification draws the inputs of one group of functions from bounded   *)
(* sets in its initial states and applies the functions in its actions.    *)
(***************************************************************************)
EXTENDS Integers, Sequences, FiniteSets, Bags, TLC

VARIABLES
    pc,          \* position of the call sequence of the running specification
    raw,         \* clean_text: the raw input text
    cleaned,     \* clean_text(raw)
    recleaned,   \* clean_text(cleaned)
    resume_skills,   \* skill analysis: the list of the resume's skills
    job_skills,      \* skill analysis: the list of the job's skills
    gaps,            \* analyze_skill_gaps(resume_skills, job_skills)
    overlap,         \* get_skill_overlap_analysis(resume_skills, job_skills)
    overlap_swapped, \* get_skill_overlap_analysis(job_skills, resume_skills)
    read_text,       \* get_readability_score: the input text
    readability,     \* get_readability_score(read_text)
    punkt,           \* whether the NLTK tokenizer data was found or downloaded
    skill_text,      \* extract_skills: the input text
    found_skills,    \* extract_skills(skill_text)
    stopwords_corpus,    \* whether the NLTK stop word corpus was found or downloaded
    fault,               \* the function whose body raises an exception, or "none"
    resume_text,         \* scoring: the resume
    job_text,            \* scoring: the job description
    similarity,          \* calculate_similarity_score(resume_text, job_text)
    richer_text,         \* scoring: a second resume, scored against the same job
    richer_similarity,   \* calculate_similarity_score(richer_text, job_text)
    suggest_gaps,        \* generate_improvements: the list of the missing skills
    suggestions,         \* generate_improvements(resume_text, job_text, suggest_gaps)
    exception,           \* the function out of which an exception has propagated, or "none"
    tok_text,            \* tokenize_text: the input text
    tok_tried,           \* tokenize_text: the tokenizers tried so far, in order
    tok_result,          \* tokenize_text(tok_text), once it has returned
    skill_list,          \* a list of skills or of keywords handed to an operation
    skill_name,          \* suggest_alternative_skills: the missing skill
    statistics,          \* get_text_statistics(resume_text)
    details,             \* get_similarity_details(resume_text, job_text)
    keyword_score,       \* calculate_keyword_match_score(resume_text, skill_list)
    prioritized,         \* prioritize_missing_skills(skill_list, job_text)
    alternative_skills,  \* suggest_alternative_skills(skill_name)
    categorized,         \* categorize_skills(skill_list)
    skill_suggestions,   \* generate_skill_suggestions(suggest_gaps, job_text)
    swapped_similarity,  \* calculate_similarity_score(job_text, resume_text)
    stage_results,       \* extract_skills: the skills found by each tokenizer stage
    file_text,           \* app: the text held by the uploaded file
    uploaded_file,       \* app: the name of the uploaded file, "" when there is none
    analyze_button,      \* app: whether the button "Analyze Resume" was pressed
    extractable,         \* app: whether the reader of the file format can read the file
    cleaned_resume,      \* app: clean_text(resume_text)
    cleaned_job,         \* app: clean_text(job_text)
    invoked,             \* app: the core operations invoked so far, in order
    displayed,           \* app: what the page shows
    structure_suggestions,   \* the suggestions of the structure family of the last run
    technical_skills,    \* the module-level set TECHNICAL_SKILLS
    soft_skills,         \* the module-level set SOFT_SKILLS
    corpus_stopwords,    \* the stop word list of the NLTK corpus
    local_stop_words,    \* remove_stopwords: the set stop_words of the last call
    filtered_tokens,     \* remove_stopwords(tok_result)
    calls                \* the number of calls made so far

cleanVars == <<raw, cleaned, recleaned>>
gapVars == <<resume_skills, job_skills, gaps, overlap, overlap_swapped>>
readVars == <<read_text, readability>>
extractVars == <<punkt, skill_text, found_skills>>
scoreVars ==
    <<stopwords_corpus, fault, resume_text, job_text, similarity, richer_text,
      richer_similarity>>

suggestVars == <<suggest_gaps, suggestions>>

callVars ==
    <<exception, tok_text, tok_tried, tok_result, skill_list, skill_name, statistics,
      details, keyword_score, prioritized, alternative_skills, categorized,
      skill_suggestions>>

pipeVars ==
    <<swapped_similarity, stage_results, file_text, uploaded_file, analyze_button,
      extractable, cleaned_resume,
      cleaned_job, invoked, displayed, structure_suggestions, technical_skills,
      soft_skills, corpus_stopwords, local_stop_words, filtered_tokens, calls>>

vars ==
    <<pc, cleanVars, gapVars, readVars, extractVars, scoreVars, suggestVars, callVars,
      pipeVars>>

\* the record get_skill_overlap_analysis returns when it fails, and the value
\* of the variables that hold its result before it is called
NoOverlap ==
    [matching_skills |-> <<>>, missing_skills |-> <<>>, extra_skills |-> <<>>,
     match_percentage |-> 0, total_job_skills |-> 0, total_resume_skills |-> 0]

\* the record get_readability_score returns when it fails, and the value of
\* the variable that holds its result before it is called
NoReadability ==
    [flesch_reading_ease |-> 0, total_sentences |-> 0, total_words |-> 0,
     avg_words_per_sentence |-> 0]

\* what a call of calculate_similarity_score that computes nothing leaves:
\* no partial score and the result 0.0; the value of the variables that hold
\* a call before it is made
NoSimilarity == [tfidf_score |-> 0, skill_score |-> 0, hybrid_score |-> 0]

\* the record get_similarity_details returns for an empty text and when it
\* fails
NoDetails ==
    [overall_score |-> 0, common_terms |-> <<>>, resume_unique_terms |-> <<>>,
     job_unique_terms |-> <<>>]

\* the record get_text_statistics returns when it fails, without its
\* avg_words_per_sentence
NoStatistics ==
    [total_sentences |-> 0, total_words |-> 0, unique_words |-> 0,
     cleaned_words |-> 0]

\* the record categorize_skills returns when it fails
NoCategories == [technical |-> <<>>, soft |-> <<>>]

\* the variables of the functions a specification does not call
ScoreIdle ==
    /\ stopwords_corpus = TRUE
    /\ fault = "none"
    /\ resume_text = ""
    /\ job_text = ""
    /\ similarity = NoSimilarity
    /\ richer_text = ""
    /\ richer_similarity = NoSimilarity
SuggestIdle == suggest_gaps = <<>> /\ suggestions = EmptyBag
CallIdle ==
    /\ exception = "none"
    /\ tok_text = ""
    /\ tok_tried = <<>>
    /\ tok_result = <<>>
    /\ skill_list = <<>>
    /\ skill_name = ""
    /\ statistics = NoStatistics
    /\ details = NoDetails
    /\ keyword_score = 0
    /\ prioritized = <<>>
    /\ alternative_skills = <<>>
    /\ categorized = NoCategories
    /\ skill_suggestions = <<>>
ReadIdle == read_text = "" /\ readability = NoReadability
ExtractIdle == punkt = TRUE /\ skill_text = "" /\ found_skills = <<>>
CleanIdle == raw = "" /\ cleaned = "" /\ recleaned = ""
GapIdle ==
    /\ resume_skills = <<>>
    /\ job_skills = <<>>
    /\ gaps = <<>>
    /\ overlap = NoOverlap
    /\ overlap_swapped = NoOverlap

(***************************************************************************)
(* Bounds of the model.                                                    *)
(***************************************************************************)
MaxPieces == 3      \* pieces concatenated into a raw text for clean_text
MaxSkills == 2      \* entries of a skill list handed to the skill analysis
MaxChars == 5       \* characters of a text handed to get_readability_score
MaxWords == 3       \* words of a text handed to extract_skills
MaxScoreWords == 2  \* words of a resume handed to calculate_similarity_score
MaxGaps == 6        \* entries of a list of missing skills handed to generate_improvements
MaxTokenWords == 2  \* words of a text handed to tokenize_text
MaxMissing == 3     \* entries of a list handed to prioritize_missing_skills
MaxCalls == 2       \* calls of the operations made one after the other

(***************************************************************************)
(* Python str and re character classes.                                    *)
(***************************************************************************)
Lowers == "abcdefghijklmnopqrstuvwxyz"
Uppers == "ABCDEFGHIJKLMNOPQRSTUVWXYZ"
Digits == "0123456789"
\* the characters of the model in code point order
AsciiOrder == "\t\n !#+,-./0123456789:@ABCDEFGHIJKLMNOPQRSTUVWXYZ_abcdefghijklmnopqrstuvwxyz"

CharAt(s, i) == SubSeq(s, i, i)
CharsOf(s) == {CharAt(s, i) : i \in 1..Len(s)}
LowerSet == CharsOf(Lowers)
UpperSet == CharsOf(Uppers)
DigitSet == CharsOf(Digits)
LetterSet == LowerSet \cup UpperSet

IndexIn(s, c) == CHOOSE i \in 1..Len(s) : CharAt(s, i) = c
\* ord(c), up to the gaps between the characters of the model
OrdOf == [c \in CharsOf(AsciiOrder) |-> IndexIn(AsciiOrder, c)]
Ord(c) == OrdOf[c]

\* \s and str.split(): whitespace
IsSpace(c) == c \in {" ", "\t", "\n"}
\* \w: alphanumeric or underscore
IsWordChar(c) == c \in LetterSet \cup DigitSet \cup {"_"}

\* str.lower() on one character
LowerOf == [c \in UpperSet |-> CharAt(Lowers, IndexIn(Uppers, c))]
LowerChar(c) == IF c \in UpperSet THEN LowerOf[c] ELSE c
\* str.upper() on one character
UpperOf == [c \in LowerSet |-> CharAt(Uppers, IndexIn(Lowers, c))]
UpperChar(c) == IF c \in LowerSet THEN UpperOf[c] ELSE c

RECURSIVE LowerFrom(_, _)
LowerFrom(s, i) ==
    IF i > Len(s) THEN "" ELSE LowerChar(CharAt(s, i)) \o LowerFrom(s, i + 1)
\* str.lower()
Lower(s) == LowerFrom(s, 1)

\* `sub in s`
PrefixAt(s, i, p) == i >= 1 /\ i + Len(p) - 1 <= Len(s) /\ SubSeq(s, i, i + Len(p) - 1) = p
Contains(s, sub) == \E i \in 1..(Len(s) - Len(sub) + 1) : SubSeq(s, i, i + Len(sub) - 1) = sub

(***************************************************************************)
(* clean_text, src/utils/nlp_processor.py:50-86.                           *)
(***************************************************************************)
\* the last index of the run of non-whitespace characters that holds index i
RECURSIVE RunEnd(_, _)
RunEnd(t, i) ==
    IF i < Len(t) /\ ~IsSpace(CharAt(t, i + 1)) THEN RunEnd(t, i + 1) ELSE i

\* p\S+ tried at index i: the last index of the match, 0 when there is none
PrefixRunMatch(t, i, p) ==
    IF PrefixAt(t, i, p) /\ i + Len(p) <= Len(t) /\ ~IsSpace(CharAt(t, i + Len(p)))
    THEN RunEnd(t, i + Len(p))
    ELSE 0

\* http\S+|www\S+|https\S+ tried at index i, the alternatives in order
UrlMatch(t, i) ==
    LET a == PrefixRunMatch(t, i, "http")
        b == PrefixRunMatch(t, i, "www")
        c == PrefixRunMatch(t, i, "https")
    IN  IF a > 0 THEN a ELSE IF b > 0 THEN b ELSE c

RECURSIVE RemoveUrlsFrom(_, _)
RemoveUrlsFrom(t, i) ==
    IF i > Len(t) THEN ""
    ELSE LET e == UrlMatch(t, i)
         IN  IF e > 0 THEN RemoveUrlsFrom(t, e + 1)
             ELSE CharAt(t, i) \o RemoveUrlsFrom(t, i + 1)
\* re.sub(r'http\S+|www\S+|https\S+', '', text)
RemoveUrls(t) == RemoveUrlsFrom(t, 1)

\* \S+@\S+ tried at index i: the last index of the match, 0 when there is none
EmailMatch(t, i) ==
    IF IsSpace(CharAt(t, i)) THEN 0
    ELSE LET e == RunEnd(t, i)
         IN  IF \E j \in (i + 1)..(e - 1) : CharAt(t, j) = "@" THEN e ELSE 0

RECURSIVE RemoveEmailsFrom(_, _)
RemoveEmailsFrom(t, i) ==
    IF i > Len(t) THEN ""
    ELSE LET e == EmailMatch(t, i)
         IN  IF e > 0 THEN RemoveEmailsFrom(t, e + 1)
             ELSE CharAt(t, i) \o RemoveEmailsFrom(t, i + 1)
\* re.sub(r'\S+@\S+', '', text)
RemoveEmails(t) == RemoveEmailsFrom(t, 1)

WordAt(t, i) == i >= 1 /\ i <= Len(t) /\ IsWordChar(CharAt(t, i))
DigitAt(t, i) == i >= 1 /\ i <= Len(t) /\ CharAt(t, i) \in DigitSet
\* \b before index i
Boundary(t, i) == WordAt(t, i - 1) # WordAt(t, i)
DigitsAt(t, i, n) == \A k \in 0..(n - 1) : DigitAt(t, i + k)
\* [-.]? at index i: the number of characters it takes
SepLen(t, i) == IF i <= Len(t) /\ CharAt(t, i) \in {"-", "."} THEN 1 ELSE 0

\* \b\d{3}[-.]?\d{3}[-.]?\d{4}\b tried at index i: the last index of the
\* match, 0 when there is none
PhoneMatch(t, i) ==
    LET b == i + 3 + SepLen(t, i + 3)
        d == b + 3 + SepLen(t, b + 3)
    IN  IF /\ Boundary(t, i)
           /\ DigitsAt(t, i, 3)
           /\ DigitsAt(t, b, 3)
           /\ DigitsAt(t, d, 4)
           /\ Boundary(t, d + 4)
        THEN d + 3
        ELSE 0

RECURSIVE RemovePhonesFrom(_, _)
RemovePhonesFrom(t, i) ==
    IF i > Len(t) THEN ""
    ELSE LET e == PhoneMatch(t, i)
         IN  IF e > 0 THEN RemovePhonesFrom(t, e + 1)
             ELSE CharAt(t, i) \o RemovePhonesFrom(t, i + 1)
\* re.sub(r'\b\d{3}[-.]?\d{3}[-.]?\d{4}\b', '', text)
RemovePhones(t) == RemovePhonesFrom(t, 1)

RECURSIVE ReplaceSpecialsFrom(_, _)
ReplaceSpecialsFrom(t, i) ==
    IF i > Len(t) THEN ""
    ELSE LET c == CharAt(t, i)
         IN  (IF IsWordChar(c) \/ IsSpace(c) THEN c ELSE " ")
                 \o ReplaceSpecialsFrom(t, i + 1)
\* re.sub(r'[^\w\s]', ' ', text)
ReplaceSpecials(t) == ReplaceSpecialsFrom(t, 1)

\* str.split(): the maximal runs of non-whitespace characters, in order
RECURSIVE SplitFrom(_, _)
SplitFrom(t, i) ==
    IF i > Len(t) THEN <<>>
    ELSE IF IsSpace(CharAt(t, i)) THEN SplitFrom(t, i + 1)
    ELSE LET e == RunEnd(t, i)
         IN  <<SubSeq(t, i, e)>> \o SplitFrom(t, e + 1)
Split(t) == SplitFrom(t, 1)

\* sep.join(words)
RECURSIVE Join(_, _)
Join(sep, words) ==
    IF words = <<>> THEN ""
    ELSE IF Len(words) = 1 THEN words[1]
    ELSE words[1] \o sep \o Join(sep, Tail(words))

\* str.strip()
RECURSIVE Strip(_)
Strip(t) ==
    IF t = "" THEN ""
    ELSE IF IsSpace(CharAt(t, 1)) THEN Strip(SubSeq(t, 2, Len(t)))
    ELSE IF IsSpace(CharAt(t, Len(t))) THEN Strip(SubSeq(t, 1, Len(t) - 1))
    ELSE t

\* a slip of clean_text: the words are joined without the separating space
clean_text_joined(text) ==
    IF text = "" THEN ""
    ELSE Strip(Join("", Split(ReplaceSpecials(RemovePhones(RemoveEmails(
             RemoveUrls(Lower(text))))))))

\* a slip of clean_text: the URLs are not removed
clean_text_keeps_urls(text) ==
    IF text = "" THEN ""
    ELSE Strip(Join(" ", Split(ReplaceSpecials(RemovePhones(RemoveEmails(
             Lower(text)))))))

\* the statements of the body of clean_text that assign to text, lines
\* 65-80, by the value of fault that makes the statement raise
CleanFaults ==
    <<"clean_text.lower", "clean_text.urls", "clean_text.emails",
      "clean_text.phones", "clean_text.specials", "clean_text.whitespace">>

\* the value of text after the k-th of these statements
RECURSIVE CleanThrough(_, _)
CleanThrough(text, k) ==
    IF k = 0 THEN text
    ELSE LET before == CleanThrough(text, k - 1)
         IN  CASE k = 1 -> Lower(before)
               [] k = 2 -> RemoveUrls(before)
               [] k = 3 -> RemoveEmails(before)
               [] k = 4 -> RemovePhones(before)
               [] k = 5 -> ReplaceSpecials(before)
               [] k = 6 -> Join(" ", Split(before))

\* when a statement raises, the handler returns text, which holds what the
\* statements before it have assigned
clean_text(text) ==
    IF text = "" THEN ""
    ELSE IF \E k \in DOMAIN CleanFaults : fault = CleanFaults[k]
    THEN CleanThrough(text, (CHOOSE k \in DOMAIN CleanFaults : fault = CleanFaults[k]) - 1)
    ELSE Strip(CleanThrough(text, 6))

(***************************************************************************)
(* Python str.title, list.sort on strings, set iteration, round.           *)
(***************************************************************************)
\* str.title(): a letter is upper-cased when no letter precedes it and
\* lower-cased when a letter does; every other character is kept
RECURSIVE TitleFrom(_, _)
TitleFrom(s, i) ==
    IF i > Len(s) THEN ""
    ELSE LET c == CharAt(s, i)
             afterLetter == i > 1 /\ CharAt(s, i - 1) \in LetterSet
         IN  (IF c \in LetterSet
              THEN (IF afterLetter THEN LowerChar(c) ELSE UpperChar(c))
              ELSE c) \o TitleFrom(s, i + 1)
Title(s) == TitleFrom(s, 1)

\* a < b for two strings: the order of list.sort, by code point
RECURSIVE StrLessFrom(_, _, _)
StrLessFrom(a, b, i) ==
    IF i > Len(b) THEN FALSE
    ELSE IF i > Len(a) THEN TRUE
    ELSE LET x == Ord(CharAt(a, i))
             y == Ord(CharAt(b, i))
         IN  IF x < y THEN TRUE
             ELSE IF x > y THEN FALSE
             ELSE StrLessFrom(a, b, i + 1)
StrLess(a, b) == StrLessFrom(a, b, 1)

\* x inserted into the sorted list, after the entries that are not greater
RECURSIVE InsertSorted(_, _)
InsertSorted(x, sorted) ==
    IF sorted = <<>> THEN <<x>>
    ELSE IF StrLess(x, Head(sorted)) THEN <<x>> \o sorted
    ELSE <<Head(sorted)>> \o InsertSorted(x, Tail(sorted))

\* list.sort() of a list of strings
RECURSIVE SortStrings(_)
SortStrings(list) ==
    IF list = <<>> THEN <<>>
    ELSE InsertSorted(list[Len(list)], SortStrings(SubSeq(list, 1, Len(list) - 1)))

\* the orders in which a set can be iterated: every enumeration of it
RECURSIVE Orderings(_)
Orderings(S) ==
    IF S = {} THEN {<<>>}
    ELSE UNION {{<<x>> \o rest : rest \in Orderings(S \ {x})} : x \in S}

ToSet(list) == {list[i] : i \in DOMAIN list}
\* [f(x) for x in list] for f = str.title
TitleAll(list) == [i \in DOMAIN list |-> Title(list[i])]
\* set(skill.lower() for skill in skills)
LowerSetOf(skills) == {Lower(skills[i]) : i \in DOMAIN skills}
\* the entries of order that are in S, in the order of order
RECURSIVE Restrict(_, _)
Restrict(order, S) ==
    IF order = <<>> THEN <<>>
    ELSE (IF Head(order) \in S THEN <<Head(order)>> ELSE <<>>)
             \o Restrict(Tail(order), S)

\* round() of the float that stands for the fraction num / den, for
\* num >= 0 and den > 0: the nearest integer; where the fraction is a tie
\* the float is below, at or above it, and round() goes either way
RoundDiv(num, den) ==
    LET q == num \div den
        r == num % den
    IN  IF 2 * r < den THEN {q}
        ELSE IF 2 * r > den THEN {q + 1}
        ELSE {q, q + 1}

(***************************************************************************)
(* analyze_skill_gaps and get_skill_overlap_analysis,                      *)
(* src/utils/skill_analyzer.py:9-85.  A list built from a set has the      *)
(* order in which the set is iterated, which is any order: each operator   *)
(* is the set of the values the function can return.                       *)
(***************************************************************************)
\* a slip of analyze_skill_gaps: the skills are compared as they are written
analyze_skill_gaps_case_sensitive(resume, job) ==
    IF job = <<>> THEN {<<>>}
    ELSE {SortStrings(TitleAll(order)) : order \in Orderings(ToSet(job) \ ToSet(resume))}

analyze_skill_gaps(resume, job) ==
    IF fault = "analyze_skill_gaps" \/ job = <<>> THEN {<<>>}
    ELSE LET resume_skills_set == LowerSetOf(resume)
             job_skills_set == LowerSetOf(job)
             missing_skills == job_skills_set \ resume_skills_set
         IN  {SortStrings(TitleAll(order)) : order \in Orderings(missing_skills)}

\* match_percentage in tenths of a percent: round(matching / total * 100, 1)
MatchPercentage(matching, total) ==
    IF total > 0 THEN RoundDiv(matching * 1000, total) ELSE {0}

\* a slip of get_skill_overlap_analysis: the missing skills are reported as
\* the extra skills too
get_skill_overlap_analysis_extra_slip(resume, job) ==
    LET resume_skills_set == LowerSetOf(resume)
        job_skills_set == LowerSetOf(job)
        matching_skills == resume_skills_set \cap job_skills_set
        missing_skills == job_skills_set \ resume_skills_set
        extra_skills == job_skills_set \ resume_skills_set
        total_job_skills == Cardinality(job_skills_set)
    IN  {[matching_skills |-> TitleAll(Restrict(order, matching_skills)),
          missing_skills |-> TitleAll(Restrict(order, missing_skills)),
          extra_skills |-> TitleAll(Restrict(order, extra_skills)),
          match_percentage |-> percentage,
          total_job_skills |-> total_job_skills,
          total_resume_skills |-> Cardinality(resume_skills_set)] :
            order \in Orderings(resume_skills_set \cup job_skills_set),
            percentage \in MatchPercentage(Cardinality(matching_skills), total_job_skills)}

get_skill_overlap_analysis(resume, job) ==
    LET resume_skills_set == LowerSetOf(resume)
        job_skills_set == LowerSetOf(job)
        matching_skills == resume_skills_set \cap job_skills_set
        missing_skills == job_skills_set \ resume_skills_set
        extra_skills == resume_skills_set \ job_skills_set
        total_job_skills == Cardinality(job_skills_set)
    IN  IF fault = "get_skill_overlap_analysis" THEN {NoOverlap} ELSE
        {[matching_skills |-> TitleAll(Restrict(order, matching_skills)),
          missing_skills |-> TitleAll(Restrict(order, missing_skills)),
          extra_skills |-> TitleAll(Restrict(order, extra_skills)),
          match_percentage |-> percentage,
          total_job_skills |-> total_job_skills,
          total_resume_skills |-> Cardinality(resume_skills_set)] :
            order \in Orderings(resume_skills_set \cup job_skills_set),
            percentage \in MatchPercentage(Cardinality(matching_skills), total_job_skills)}

(***************************************************************************)
(* get_readability_score and count_syllables,                              *)
(* src/utils/similarity_scorer.py:279-345.  A score is held in tenths, as  *)
(* round(score, 1) leaves it, and computed on exact fractions; the         *)
(* operator is the set of the records the function can return.             *)
(***************************************************************************)
\* str.split(sep) for a one-character separator: the pieces between the
\* separators, the empty ones included
RECURSIVE SplitOnFrom(_, _, _, _)
SplitOnFrom(t, sep, start, i) ==
    IF i > Len(t) THEN <<SubSeq(t, start, Len(t))>>
    ELSE IF CharAt(t, i) = sep
    THEN <<SubSeq(t, start, i - 1)>> \o SplitOnFrom(t, sep, i + 1, i + 1)
    ELSE SplitOnFrom(t, sep, start, i + 1)
SplitOn(t, sep) == SplitOnFrom(t, sep, 1, 1)

\* sum(f(x) for x in list), the values of f given as a list
RECURSIVE SumSeq(_)
SumSeq(list) == IF list = <<>> THEN 0 ELSE Head(list) + SumSeq(Tail(list))

Vowels == CharsOf("aeiouy")

count_syllables(word) ==
    LET w == Lower(word)
        first == IF CharAt(w, 1) \in Vowels THEN 1 ELSE 0
        groups == Cardinality({i \in 2..Len(w) :
                      CharAt(w, i) \in Vowels /\ CharAt(w, i - 1) \notin Vowels})
        count == IF CharAt(w, Len(w)) = "e" THEN first + groups - 1 ELSE first + groups
    IN  IF count = 0 THEN count + 1 ELSE count

\* 206.835 - 1.015 * (words / sentences) - 84.6 * (syllables / words) as the
\* fraction FleschNum / FleschDen, for sentences > 0 and words > 0
FleschNum(sentences, words, syllables) ==
    206835 * sentences * words - 1015 * words * words - 84600 * syllables * sentences
FleschDen(sentences, words) == 1000 * sentences * words

\* a slip of get_readability_score: the score is not clamped from above
FleschTenthsNoCeiling(sentences, words, syllables) ==
    LET num == FleschNum(sentences, words, syllables)
        den == FleschDen(sentences, words)
    IN  IF num <= 0 THEN {0} ELSE RoundDiv(num, den \div 10)

\* round(max(0, min(100, flesch_score)), 1), in tenths: the values it can take
FleschTenths(sentences, words, syllables) ==
    LET num == FleschNum(sentences, words, syllables)
        den == FleschDen(sentences, words)
    IN  IF num <= 0 THEN {0}
        ELSE IF num >= 100 * den THEN {1000}
        ELSE RoundDiv(num, den \div 10)

get_readability_score(text) ==
    LET sentences == SplitOn(text, ".")
        words == Split(text)
        total_sentences == Cardinality({i \in DOMAIN sentences : Strip(sentences[i]) # ""})
        total_words == Len(words)
        total_syllables == SumSeq([i \in DOMAIN words |-> count_syllables(words[i])])
        flesch_scores ==
            IF total_sentences > 0 /\ total_words > 0
            THEN FleschTenths(total_sentences, total_words, total_syllables)
            ELSE {0}
        averages ==
            IF total_sentences > 0 THEN RoundDiv(10 * total_words, total_sentences) ELSE {0}
    IN  IF fault = "get_readability_score" THEN {NoReadability} ELSE
        {[flesch_reading_ease |-> flesch_score,
          total_sentences |-> total_sentences,
          total_words |-> total_words,
          avg_words_per_sentence |-> average] :
            flesch_score \in flesch_scores, average \in averages}

(***************************************************************************)
(* tokenize_text and extract_skills, src/utils/nlp_processor.py:34-48,     *)
(* 88-130 and 172-216.                                                     *)
(***************************************************************************)
TECHNICAL_SKILLS ==
    {"python", "java", "javascript", "c++", "c#", "ruby", "php", "swift", "kotlin",
     "sql", "mysql", "postgresql", "mongodb", "redis", "elasticsearch",
     "html", "css", "react", "angular", "vue", "node.js", "django", "flask",
     "aws", "azure", "gcp", "docker", "kubernetes", "jenkins", "git",
     "machine learning", "deep learning", "nlp", "computer vision", "tensorflow",
     "pytorch", "scikit-learn", "pandas", "numpy", "matplotlib", "seaborn",
     "linux", "windows", "macos", "api", "rest", "graphql", "microservices"}

SOFT_SKILLS ==
    {"communication", "leadership", "teamwork", "problem solving", "analytical",
     "project management", "time management", "creativity", "adaptability",
     "critical thinking", "collaboration", "mentoring", "presentation"}

\* nltk.word_tokenize on a text of word characters and whitespace, which is
\* what clean_text returns: the words, with the contractions the Treebank
\* tokenizer knows split in two
TreebankSplit(word) ==
    IF word \in {"cannot", "gimme", "gonna", "gotta", "lemme"}
    THEN <<SubSeq(word, 1, 3), SubSeq(word, 4, Len(word))>>
    ELSE <<word>>

RECURSIVE Flatten(_)
Flatten(lists) ==
    IF lists = <<>> THEN <<>> ELSE Head(lists) \o Flatten(Tail(lists))

word_tokenize(t) ==
    LET words == Split(t)
    IN  Flatten([i \in DOMAIN words |-> TreebankSplit(words[i])])

\* re.findall(r'\b\w+\b', text): the maximal runs of word characters
RECURSIVE WordRunEnd(_, _)
WordRunEnd(t, i) ==
    IF i < Len(t) /\ IsWordChar(CharAt(t, i + 1)) THEN WordRunEnd(t, i + 1) ELSE i

RECURSIVE FindWordsFrom(_, _)
FindWordsFrom(t, i) ==
    IF i > Len(t) THEN <<>>
    ELSE IF ~IsWordChar(CharAt(t, i)) THEN FindWordsFrom(t, i + 1)
    ELSE LET e == WordRunEnd(t, i)
         IN  <<SubSeq(t, i, e)>> \o FindWordsFrom(t, e + 1)
FindWords(t) == FindWordsFrom(t, 1)

\* str.isdigit()
IsDigitString(s) == s # "" /\ \A i \in 1..Len(s) : CharAt(s, i) \in DigitSet

\* [x for x in list if keep(x)], keep given as the set of the indexes kept
RECURSIVE FilterFrom(_, _, _)
FilterFrom(list, kept, i) ==
    IF i > Len(list) THEN <<>>
    ELSE (IF i \in kept THEN <<list[i]>> ELSE <<>>) \o FilterFrom(list, kept, i + 1)
Filter(list, kept) == FilterFrom(list, kept, 1)

\* method 3 of tokenize_text: the regex tokenizer
regex_tokenize(t) ==
    LET tokens == FindWords(Lower(t))
    IN  Filter(tokens, {i \in DOMAIN tokens :
                            Len(tokens[i]) > 1 /\ ~IsDigitString(tokens[i])})

\* token.strip('.,!?;:()[]{}')
RECURSIVE StripPunctuation(_)
StripPunctuation(token) ==
    LET punctuation == {".", ",", "!", "?", ";", ":", "(", ")", "[", "]", "{", "}"}
    IN  IF token = "" THEN ""
        ELSE IF CharAt(token, 1) \in punctuation
        THEN StripPunctuation(SubSeq(token, 2, Len(token)))
        ELSE IF CharAt(token, Len(token)) \in punctuation
        THEN StripPunctuation(SubSeq(token, 1, Len(token) - 1))
        ELSE token

\* method 4 of tokenize_text: the split at white space
split_tokenize(t) ==
    LET tokens == Split(Lower(t))
    IN  Filter([i \in DOMAIN tokens |-> StripPunctuation(tokens[i])],
               {i \in DOMAIN tokens : StripPunctuation(tokens[i]) # ""})

\* whether word_tokenize raises an exception that is neither LookupError
\* nor ImportError: the tokenizer data is found and cannot be used
WordTokenizeFails == punkt /\ fault = "tokenize_text.word_tokenize"

\* whether an exception propagates out of tokenize_text: methods 1 and 2
\* catch LookupError and ImportError only
tokenize_text_raises(t) == WordTokenizeFails /\ t # "" /\ Strip(t) # ""

\* methods 1 and 2 call word_tokenize, which raises LookupError when the
\* tokenizer data is missing; method 3 is the regex tokenizer, and method 4
\* follows when method 3 raises.  The value tokenize_text returns when no
\* exception propagates out of it
tokenize_text(t) ==
    IF t = "" \/ Strip(t) = "" THEN <<>>
    ELSE IF punkt THEN word_tokenize(t)
    ELSE IF fault = "tokenize_text.regex" THEN split_tokenize(t)
    ELSE regex_tokenize(t)

\* the substrings of s: x is one of them exactly when `x in s`
Substrings(s) == {SubSeq(s, i, j) : i \in 1..Len(s), j \in 0..Len(s)}

\* a slip of extract_skills: a token counts as a skill when an entry of the
\* vocabularies starts with it
RECURSIVE AppendTokenSkills_by_prefix(_, _)
AppendTokenSkills_by_prefix(found, tokens) ==
    IF tokens = <<>> THEN found
    ELSE LET token_lower == Lower(Head(tokens))
             entries == {v \in TECHNICAL_SKILLS \cup SOFT_SKILLS :
                             /\ Len(v) >= Len(token_lower)
                             /\ SubSeq(v, 1, Len(token_lower)) = token_lower}
             more == IF entries # {} /\ ToSet(found) \cap {Title(v) : v \in entries} = {}
                     THEN Append(found, Title(CHOOSE v \in entries : TRUE))
                     ELSE found
         IN  AppendTokenSkills_by_prefix(more, Tail(tokens))

\* the tokens that are a skill and are not yet in found are appended to it,
\* title-cased, in the order of the tokens
RECURSIVE AppendTokenSkills(_, _)
AppendTokenSkills(found, tokens) ==
    IF tokens = <<>> THEN found
    ELSE LET token_lower == Lower(Head(tokens))
             more == IF /\ token_lower \in TECHNICAL_SKILLS \cup SOFT_SKILLS
                        /\ Title(token_lower) \notin ToSet(found)
                     THEN Append(found, Title(token_lower))
                     ELSE found
         IN  AppendTokenSkills(more, Tail(tokens))

\* a slip of extract_skills: a skill is found only as a token of the text
FoundSkills_tokens_only(t) ==
    {AppendTokenSkills(<<>>, tokenize_text(clean_text(t)))}

\* the lists extract_skills holds before it removes the duplicates and
\* sorts: the skills that are substrings of the cleaned text, in the order
\* in which the set of the skills is iterated, then the skills among the
\* tokens
FoundSkills(t) ==
    LET cleaned_text == clean_text(t)
        tokens == tokenize_text(cleaned_text)
        matches == (TECHNICAL_SKILLS \cup SOFT_SKILLS) \cap Substrings(Lower(cleaned_text))
    IN  {AppendTokenSkills(TitleAll(order), tokens) : order \in Orderings(matches)}

\* a slip of extract_skills: the list is not sorted
extract_skills_unsorted(t) ==
    IF t = "" THEN {<<>>}
    ELSE UNION {Orderings(unique) : unique \in {ToSet(found) : found \in FoundSkills(t)}}

\* the values extract_skills can return: list(set(found_skills)) has the
\* order in which the set is iterated, and is sorted
extract_skills(t) ==
    IF t = "" THEN {<<>>}
    ELSE IF fault = "extract_skills" \/ tokenize_text_raises(clean_text(t)) THEN {<<>>}
    ELSE UNION {{SortStrings(order) : order \in Orderings(unique)} :
                    unique \in {ToSet(found) : found \in FoundSkills(t)}}

(***************************************************************************)
(* Fixed-point arithmetic for the scorer.  A weight is an integer number   *)
(* of 1 / Unit; a score between 0.0 and 100.0 is an integer number of      *)
(* thousandths of a point, 0 .. Full.                                      *)
(***************************************************************************)
Unit == 10 ^ 5
Full == 100 * 1000

Min(a, b) == IF a < b THEN a ELSE b
Max(a, b) == IF a > b THEN a ELSE b

\* <<a * b \div c, a * b % c>> for a, b >= 0 and c > 0, computed without
\* the product where the product does not fit the integers
RECURSIVE MulDivQR(_, _, _)
MulDivQR(a, b, c) ==
    IF a = 0 \/ b <= 2147483647 \div a THEN <<(a * b) \div c, (a * b) % c>>
    ELSE LET half == MulDivQR(a, b \div 2, c)
             q == 2 * half[1] + (IF b % 2 = 1 THEN a \div c ELSE 0)
             r == 2 * half[2] + (IF b % 2 = 1 THEN a % c ELSE 0)
         IN  <<q + r \div c, r % c>>
MulDiv(a, b, c) == MulDivQR(a, b, c)[1]

\* the integer part of the square root of n
RECURSIVE ISqrt(_)
ISqrt(n) ==
    IF n < 2 THEN n
    ELSE LET r == 2 * ISqrt(n \div 4)
         IN  IF (r + 1) * (r + 1) <= n THEN r + 1 ELSE r

\* 1000 * sqrt(n) for n > 0: the integer root and one Newton step
Sqrt1000(n) ==
    LET x == ISqrt(n)
    IN  1000 * x + (1000 * (n - x * x)) \div (2 * x)

\* ln(2), ln(3), ... in 1 / Unit
LnTable == <<0, 69315, 109861, 138629, 160944, 179176, 194591, 207944>>
RECURSIVE SumOver(_, _)
\* the sum of f[x] for x in S
SumOver(f, S) ==
    IF S = {} THEN 0
    ELSE LET x == CHOOSE y \in S : TRUE
         IN  f[x] + SumOver(f, S \ {x})

(***************************************************************************)
(* remove_stopwords, src/utils/nlp_processor.py:132-152, and               *)
(* calculate_jaccard_similarity, src/utils/similarity_scorer.py:12-44.     *)
(***************************************************************************)
\* entries of nltk.corpus.stopwords.words('english')
NLTK_STOPWORDS ==
    {"i", "me", "my", "we", "our", "you", "your", "he", "him", "his", "she",
     "her", "it", "its", "they", "them", "their", "what", "which", "who",
     "this", "that", "these", "those", "am", "is", "are", "was", "were", "be",
     "been", "have", "has", "had", "do", "does", "did", "a", "an", "the",
     "and", "but", "if", "or", "because", "as", "until", "while", "of", "at",
     "by", "for", "with", "about", "into", "to", "from", "in", "out", "on",
     "off", "then", "when", "where", "all", "any", "no", "nor", "not", "only",
     "so", "than", "too", "very", "can", "will", "just", "should", "now"}

custom_stopwords == {"also", "would", "could", "should", "may", "might", "must"}

\* stopwords.words raises LookupError when the corpus is missing; the
\* handler returns the tokens as they came
remove_stopwords(tokens) ==
    IF ~stopwords_corpus THEN tokens
    ELSE LET stop_words == NLTK_STOPWORDS \cup custom_stopwords
         IN  Filter(tokens, {i \in DOMAIN tokens : Lower(tokens[i]) \notin stop_words})

\* the values calculate_jaccard_similarity can return, in thousandths:
\* round(jaccard_score * 100, 1); 0.0 when its body raises
calculate_jaccard_similarity(text1, text2) ==
    IF \/ fault = "jaccard"
       \/ tokenize_text_raises(Lower(text1))
       \/ tokenize_text_raises(Lower(text2))
    THEN {0}
    ELSE LET tokens1 == ToSet(remove_stopwords(tokenize_text(Lower(text1))))
             tokens2 == ToSet(remove_stopwords(tokenize_text(Lower(text2))))
             intersection == Cardinality(tokens1 \cap tokens2)
             union == Cardinality(tokens1 \cup tokens2)
         IN  IF union = 0 THEN {0}
             ELSE {100 * tenths : tenths \in RoundDiv(intersection * 1000, union)}

(***************************************************************************)
(* calculate_tfidf_similarity, src/utils/similarity_scorer.py:46-89: the   *)
(* TfidfVectorizer of scikit-learn fitted on the two texts, as configured  *)
(* there, and the cosine of the two rows.                                  *)
(***************************************************************************)
\* entries of the stop word list stop_words='english' names
ENGLISH_STOP_WORDS ==
    {"a", "about", "all", "also", "am", "an", "and", "any", "are", "as", "at",
     "be", "because", "been", "but", "by", "can", "cannot", "could", "do",
     "for", "from", "had", "has", "have", "he", "her", "him", "his", "i", "if",
     "in", "interest", "into", "is", "it", "its", "may", "me", "might", "must",
     "my", "no", "nor", "not", "now", "of", "off", "on", "only", "or", "our",
     "out", "she", "should", "so", "system", "than", "that", "the", "their",
     "them", "then", "these", "they", "this", "those", "to", "too", "until",
     "very", "was", "we", "were", "what", "when", "where", "which", "while",
     "who", "will", "with", "would", "you", "your"}

\* the analyzer: the text in lower case, its tokens of two or more word
\* characters (token_pattern), without the stop words; then the tokens and
\* the pairs of adjacent tokens (ngram_range=(1, 2))
Analyze(doc) ==
    LET words == FindWords(Lower(doc))
        tokens == Filter(words, {i \in DOMAIN words :
                                     Len(words[i]) > 1 /\ words[i] \notin ENGLISH_STOP_WORDS})
    IN  tokens \o [i \in 1..(Len(tokens) - 1) |-> tokens[i] \o " " \o tokens[i + 1]]

\* the number of times term occurs in terms
Count(terms, term) == Cardinality({i \in DOMAIN terms : terms[i] = term})

\* sublinear_tf: 1 + ln(tf)
SublinearTf(tf) == Unit + LnTable[tf]

\* smooth_idf for two documents: ln((1 + 2) / (1 + df)) + 1, which is 1 for
\* a term of both and ln(3 / 2) + 1 for a term of one
Idf(df) == IF df = 2 THEN Unit ELSE Unit + 40547

\* the row of a document before it is normalised: the weight of each of its
\* terms, given the terms of the other document
Weights(terms, other) ==
    [term \in ToSet(terms) |->
        MulDiv(SublinearTf(Count(terms, term)),
               Idf(IF term \in ToSet(other) THEN 2 ELSE 1), Unit)]

\* the cosine of the two rows, times 100, in thousandths; 0 for a row
\* without terms
Cosine(terms1, terms2) ==
    LET row1 == Weights(terms1, terms2)
        row2 == Weights(terms2, terms1)
        shared == DOMAIN row1 \cap DOMAIN row2
        dot == SumOver([t \in shared |-> MulDiv(row1[t], row2[t], Unit)], shared)
        norm1 == SumOver([t \in DOMAIN row1 |-> MulDiv(row1[t], row1[t], Unit)], DOMAIN row1)
        norm2 == SumOver([t \in DOMAIN row2 |-> MulDiv(row2[t], row2[t], Unit)], DOMAIN row2)
    IN  IF dot = 0 THEN 0
        ELSE MulDiv(MulDiv(dot, 10000000, Sqrt1000(norm1)), 10000, Sqrt1000(norm2))

\* the values calculate_tfidf_similarity can return, in thousandths.
\* fit_transform raises ValueError when no term is left (the handler calls
\* the Jaccard similarity); max_features=1000 keeps every term of texts of
\* fewer than 500 words
calculate_tfidf_similarity(resume, job) ==
    LET terms1 == Analyze(resume)
        terms2 == Analyze(job)
        vocabulary == ToSet(terms1) \cup ToSet(terms2)
    IN  IF fault = "tfidf" \/ vocabulary = {}
        THEN calculate_jaccard_similarity(resume, job)
        ELSE IF Cardinality(vocabulary) < 2
        THEN calculate_jaccard_similarity(resume, job)
        ELSE {Max(0, Min(Full, Cosine(terms1, terms2)))}

(***************************************************************************)
(* calculate_skill_similarity, src/utils/similarity_scorer.py:91-129.      *)
(***************************************************************************)
\* the Jaccard similarity of two sets of skills, raised by a fifth and
\* capped where three skills or more are common, times 100, in thousandths
\* a slip of calculate_skill_similarity: the boosted score is not capped
SkillSimilarity_not_capped(resume_set, job_set) ==
    LET common == Cardinality(resume_set \cap job_set)
        total == Cardinality(resume_set \cup job_set)
    IN  IF resume_set = {} \/ job_set = {} THEN 0
        ELSE IF common >= 3 THEN (common * 120000) \div total
        ELSE (common * Full) \div total

\* a slip of calculate_skill_similarity: the common skills are divided by
\* the skills of the job instead of the skills of both texts
SkillSimilarity_over_job(resume_set, job_set) ==
    LET common == Cardinality(resume_set \cap job_set)
        total == Cardinality(job_set)
    IN  IF resume_set = {} \/ job_set = {} THEN 0
        ELSE IF common >= 3 THEN Min(Full, (common * 120000) \div total)
        ELSE (common * Full) \div total

SkillSimilarity(resume_set, job_set) ==
    LET common_skills == resume_set \cap job_set
        total_unique_skills == resume_set \cup job_set
        common == Cardinality(common_skills)
        total == Cardinality(total_unique_skills)
    IN  IF resume_set = {} \/ job_set = {} THEN 0
        ELSE IF common >= 3 THEN Min(Full, (common * 120000) \div total)
        ELSE (common * Full) \div total

calculate_skill_similarity(resume, job) ==
    IF fault = "skill" THEN {0}
    ELSE {SkillSimilarity(ToSet(r), ToSet(j)) :
              r \in extract_skills(resume), j \in extract_skills(job)}

(***************************************************************************)
(* calculate_similarity_score, src/utils/similarity_scorer.py:131-165.     *)
(***************************************************************************)
\* a slip of calculate_similarity_score: the two weights are exchanged
HybridScore_weights_exchanged(tfidf_score, skill_score) ==
    RoundDiv(Max(0, Min(10 * Full, 6 * tfidf_score + 4 * skill_score)), 1000)

\* round(max(0.0, min(100.0, tfidf_score * 0.4 + skill_score * 0.6)), 1),
\* in tenths, for scores in thousandths
HybridScore(tfidf_score, skill_score) ==
    RoundDiv(Max(0, Min(10 * Full, 4 * tfidf_score + 6 * skill_score)), 1000)

\* a slip of calculate_similarity_score: the handler of the function
\* answers -1.0, as a mark of the failure
calculate_similarity_score_failure_mark(resume, job) ==
    IF resume = "" \/ job = "" THEN {NoSimilarity}
    ELSE IF fault = "hybrid"
    THEN {[tfidf_score |-> 0, skill_score |-> 0, hybrid_score |-> -10]}
    ELSE UNION {{[tfidf_score |-> t, skill_score |-> s, hybrid_score |-> h] :
                     h \in HybridScore(t, s)} :
                    t \in calculate_tfidf_similarity(resume, job),
                    s \in calculate_skill_similarity(resume, job)}

\* a slip of calculate_similarity_score: two empty texts are taken to match
\* in full
calculate_similarity_score_empty_match(resume, job) ==
    IF resume = "" /\ job = ""
    THEN {[tfidf_score |-> 0, skill_score |-> 0, hybrid_score |-> 1000]}
    ELSE IF resume = "" \/ job = "" \/ fault = "hybrid" THEN {NoSimilarity}
    ELSE UNION {{[tfidf_score |-> t, skill_score |-> s, hybrid_score |-> h] :
                     h \in HybridScore(t, s)} :
                    t \in calculate_tfidf_similarity(resume, job),
                    s \in calculate_skill_similarity(resume, job)}

\* a slip of calculate_similarity_score: min and max are exchanged in the
\* clamp, min(0.0, max(100.0, hybrid_score))
calculate_similarity_score_clamp_swapped(resume, job) ==
    IF resume = "" \/ job = "" \/ fault = "hybrid" THEN {NoSimilarity}
    ELSE {[tfidf_score |-> t, skill_score |-> s,
           hybrid_score |-> Min(0, Max(1000, (4 * t + 6 * s) \div 1000))] :
              t \in calculate_tfidf_similarity(resume, job),
              s \in calculate_skill_similarity(resume, job)}

\* the calls of calculate_similarity_score: the partial scores a call
\* computes, in thousandths, and the score it returns, hybrid_score rounded,
\* in tenths; 0.0 for an empty text and when the body raises
calculate_similarity_score(resume, job) ==
    IF resume = "" \/ job = "" \/ fault = "hybrid" THEN {NoSimilarity}
    ELSE UNION {{[tfidf_score |-> t, skill_score |-> s, hybrid_score |-> h] :
                     h \in HybridScore(t, s)} :
                    t \in calculate_tfidf_similarity(resume, job),
                    s \in calculate_skill_similarity(resume, job)}

(***************************************************************************)
(* get_similarity_details, src/utils/similarity_scorer.py:167-244: a       *)
(* second TfidfVectorizer, without sublinear_tf, and the terms whose       *)
(* weight in a normalised row is above the threshold.                      *)
(***************************************************************************)
\* the row of a document before it is normalised: tf * idf
DetailWeights(terms, other) ==
    [term \in ToSet(terms) |->
        Count(terms, term) * Idf(IF term \in ToSet(other) THEN 2 ELSE 1)]

\* the sum of the squares of the weights of a row
NormSquared(row) ==
    SumOver([t \in DOMAIN row |-> MulDiv(row[t], row[t], Unit)], DOMAIN row)

\* weight / norm > threshold for threshold = 0.1
AboveThreshold(weight, norm_squared) ==
    100 * MulDiv(weight, weight, Unit) > norm_squared

\* weight / norm, on a scale that is the same for every row
Normalised(weight, norm_squared) ==
    MulDiv(weight, 1000000, Sqrt1000(norm_squared))

\* list.sort(key=lambda x: x[1], reverse=True) on the terms of S, which
\* come in the order of the feature names, the order of the strings: the
\* higher score first, and of two terms of one score the lesser string first
RECURSIVE SortByScore(_, _)
SortByScore(S, score) ==
    IF S = {} THEN <<>>
    ELSE LET first == CHOOSE x \in S : \A y \in S \ {x} :
                          \/ score[x] > score[y]
                          \/ score[x] = score[y] /\ StrLess(x, y)
         IN  <<first>> \o SortByScore(S \ {first}, score)

\* list[:n]
Take(list, n) == SubSeq(list, 1, Min(n, Len(list)))

\* the values get_similarity_details can return; the record without terms
\* for an empty text and when fit_transform raises, which it does when no
\* term is left
\* a slip of get_similarity_details: a term above the threshold in both
\* texts is listed as a term of the resume and of the job description too
get_similarity_details_if_for_elif(resume, job) ==
    LET terms1 == Analyze(resume)
        terms2 == Analyze(job)
        row1 == DetailWeights(terms1, terms2)
        row2 == DetailWeights(terms2, terms1)
        norm1 == NormSquared(row1)
        norm2 == NormSquared(row2)
        resume_above == {t \in DOMAIN row1 : AboveThreshold(row1[t], norm1)}
        job_above == {t \in DOMAIN row2 : AboveThreshold(row2[t], norm2)}
        common_terms == resume_above \cap job_above
    IN  IF resume = "" \/ job = "" \/ fault = "details" THEN {NoDetails}
        ELSE IF ToSet(terms1) \cup ToSet(terms2) = {} THEN {NoDetails}
        ELSE {[overall_score |-> call.hybrid_score,
               common_terms |->
                   Take(SortByScore(common_terms,
                            [t \in common_terms |-> Normalised(row1[t], norm1)
                                                      + Normalised(row2[t], norm2)]), 10),
               resume_unique_terms |-> Take(SortByScore(resume_above, row1), 10),
               job_unique_terms |-> Take(SortByScore(job_above, row2), 10)] :
                  call \in calculate_similarity_score(resume, job)}

get_similarity_details(resume, job) ==
    LET terms1 == Analyze(resume)
        terms2 == Analyze(job)
        row1 == DetailWeights(terms1, terms2)
        row2 == DetailWeights(terms2, terms1)
        norm1 == NormSquared(row1)
        norm2 == NormSquared(row2)
        resume_above == {t \in DOMAIN row1 : AboveThreshold(row1[t], norm1)}
        job_above == {t \in DOMAIN row2 : AboveThreshold(row2[t], norm2)}
        common_terms == resume_above \cap job_above
        resume_unique == resume_above \ job_above
        job_unique == job_above \ resume_above
    IN  IF resume = "" \/ job = "" \/ fault = "details" THEN {NoDetails}
        ELSE IF ToSet(terms1) \cup ToSet(terms2) = {} THEN {NoDetails}
        ELSE {[overall_score |-> call.hybrid_score,
               common_terms |->
                   Take(SortByScore(common_terms,
                            [t \in common_terms |-> Normalised(row1[t], norm1)
                                                      + Normalised(row2[t], norm2)]), 10),
               resume_unique_terms |-> Take(SortByScore(resume_unique, row1), 10),
               job_unique_terms |-> Take(SortByScore(job_unique, row2), 10)] :
                  call \in calculate_similarity_score(resume, job)}

(***************************************************************************)
(* get_text_statistics, src/utils/nlp_processor.py:218-247.                *)
(***************************************************************************)
\* nltk.sent_tokenize on a text without '.', '!' and '?': the text is one
\* sentence, and no sentence when it is blank
sent_tokenize(t) == IF Strip(t) = "" THEN <<>> ELSE <<Strip(t)>>

\* sent_tokenize raises LookupError when the tokenizer data is missing, and
\* the handler returns the record of zeros.  avg_words_per_sentence, the
\* quotient of two of the fields, is left out
get_text_statistics(t) ==
    IF ~punkt \/ fault = "statistics" \/ WordTokenizeFails THEN NoStatistics
    ELSE LET sentences == sent_tokenize(t)
             words == tokenize_text(t)
             cleaned_words == remove_stopwords(words)
         IN  [total_sentences |-> Len(sentences),
              total_words |-> Len(words),
              unique_words |-> Cardinality(ToSet(words)),
              cleaned_words |-> Len(cleaned_words)]

(***************************************************************************)
(* generate_improvements and the four families of suggestions,             *)
(* src/utils/improvement_suggester.py:11-149.  A suggestion is its text.   *)
(***************************************************************************)
\* a slip of generate_skill_suggestions: the course suggestion is made
\* from five missing skills on
generate_skill_suggestions_from_five(skill_gaps, job) ==
    LET add == IF skill_gaps # <<>>
               THEN <<"Add these missing skills to your resume: "
                          \o Join(", ", Take(skill_gaps, 3))>>
               ELSE <<>>
        first_two == Take(skill_gaps, 2)
        mentioned == Filter(first_two, {i \in DOMAIN first_two :
                                            Contains(Lower(job), Lower(first_two[i]))})
        highlight == [i \in DOMAIN mentioned |->
                         "Highlight your experience with " \o mentioned[i]
                             \o " more prominently"]
        courses == IF Len(skill_gaps) >= 5
                   THEN <<"Consider gaining proficiency in some of the missing skills through online courses">>
                   ELSE <<>>
    IN  add \o highlight \o courses

generate_skill_suggestions(skill_gaps, job) ==
    LET add == IF skill_gaps # <<>>
               THEN <<"Add these missing skills to your resume: "
                          \o Join(", ", Take(skill_gaps, 3))>>
               ELSE <<>>
        first_two == Take(skill_gaps, 2)
        mentioned == Filter(first_two, {i \in DOMAIN first_two :
                                            Contains(Lower(job), Lower(first_two[i]))})
        highlight == [i \in DOMAIN mentioned |->
                         "Highlight your experience with " \o mentioned[i]
                             \o " more prominently"]
        courses == IF Len(skill_gaps) > 5
                   THEN <<"Consider gaining proficiency in some of the missing skills through online courses">>
                   ELSE <<>>
    IN  add \o highlight \o courses

achievement_indicators ==
    {"increased", "improved", "reduced", "achieved", "delivered", "managed", "led"}

action_verbs ==
    {"developed", "created", "implemented", "designed", "managed", "led", "optimized"}

generate_content_suggestions(resume, job, similarity_details) ==
    LET job_unique_terms == similarity_details.job_unique_terms
        keywords == IF job_unique_terms # <<>>
                    THEN <<"Incorporate these job-specific keywords: "
                               \o Join(", ", Take(job_unique_terms, 5))>>
                    ELSE <<>>
        word_count == Len(Split(resume))
        length == IF word_count < 200
                  THEN <<"Your resume seems short. Consider adding more relevant experience and achievements">>
                  ELSE IF word_count > 800
                  THEN <<"Your resume is quite long. Consider condensing it to focus on the most relevant information">>
                  ELSE <<>>
        has_achievements == \E indicator \in achievement_indicators :
                                Contains(Lower(resume), indicator)
        achievements == IF ~has_achievements
                        THEN <<"Add quantifiable achievements and metrics to demonstrate your impact">>
                        ELSE <<>>
        has_action_verbs == \E verb \in action_verbs : Contains(Lower(resume), verb)
        verbs == IF ~has_action_verbs
                 THEN <<"Use strong action verbs to describe your accomplishments">>
                 ELSE <<>>
    IN  keywords \o length \o achievements \o verbs

\* a slip of generate_structure_suggestions: a sentence of 25 words is
\* already a complex sentence
generate_structure_suggestions_from_25(stats, readability_scores) ==
    LET sentences == IF readability_scores.avg_words_per_sentence >= 250
                     THEN <<"Shorten complex sentences for better readability">>
                     ELSE <<>>
        language == IF readability_scores.flesch_reading_ease < 400
                    THEN <<"Simplify language and technical jargon for better readability">>
                    ELSE <<>>
        variety == IF stats.total_words > 0 /\ 10 * stats.unique_words < 3 * stats.total_words
                   THEN <<"Use more varied vocabulary to make your resume more engaging">>
                   ELSE <<>>
    IN  sentences \o language \o variety

\* avg_words_per_sentence and flesch_reading_ease are in tenths
generate_structure_suggestions(stats, readability_scores) ==
    LET sentences == IF readability_scores.avg_words_per_sentence > 250
                     THEN <<"Shorten complex sentences for better readability">>
                     ELSE <<>>
        language == IF readability_scores.flesch_reading_ease < 400
                    THEN <<"Simplify language and technical jargon for better readability">>
                    ELSE <<>>
        variety == IF stats.total_words > 0 /\ 10 * stats.unique_words < 3 * stats.total_words
                   THEN <<"Use more varied vocabulary to make your resume more engaging">>
                   ELSE <<>>
    IN  sentences \o language \o variety

generate_keyword_suggestions(similarity_details) ==
    LET common_terms == similarity_details.common_terms
        resume_unique == similarity_details.resume_unique_terms
        job_unique == similarity_details.job_unique_terms
        alignment == IF Len(common_terms) < 5
                     THEN <<"Increase keyword alignment by incorporating more job-relevant terms">>
                     ELSE <<>>
        industry == IF job_unique # <<>>
                    THEN <<"Consider adding these industry-specific terms that appear in the job description">>
                    ELSE <<>>
        relevance == IF resume_unique # <<>> /\ Len(resume_unique) > Len(common_terms)
                     THEN <<"Some of your unique skills might not be relevant - focus on job requirements">>
                     ELSE <<>>
    IN  alignment \o industry \o relevance

\* the lists generate_improvements can hold before it removes the
\* duplicates: the suggestions of the four families, in this order
AllSuggestions(resume, job, skill_gaps) ==
    {generate_skill_suggestions(skill_gaps, job)
         \o generate_content_suggestions(resume, job, similarity_details)
         \o generate_structure_suggestions(get_text_statistics(resume), readability_scores)
         \o generate_keyword_suggestions(similarity_details) :
        similarity_details \in get_similarity_details(resume, job),
        readability_scores \in get_readability_score(resume)}

\* the subsets of S of k elements
RECURSIVE KSubsets(_, _)
KSubsets(S, k) ==
    IF k = 0 THEN {{}}
    ELSE IF Cardinality(S) < k THEN {}
    ELSE LET x == CHOOSE y \in S : TRUE
         IN  KSubsets(S \ {x}, k) \cup {K \cup {x} : K \in KSubsets(S \ {x}, k - 1)}

\* the bag of the entries of a list
RECURSIVE ListToBag(_)
ListToBag(list) ==
    IF list = <<>> THEN EmptyBag
    ELSE SetToBag({Head(list)}) (+) ListToBag(Tail(list))

\* the statements of the body of generate_improvements that can raise: the
\* body itself and the four families, which have no handler of their own
ImprovementFaults ==
    {"improvements", "generate_skill_suggestions", "generate_content_suggestions",
     "generate_structure_suggestions", "generate_keyword_suggestions"}

\* a slip of generate_improvements: the handler adds the fallback suggestion
\* to the suggestions collected before the exception
generate_improvements_keeps_collected(resume, job, skill_gaps) ==
    IF fault \in ImprovementFaults
    THEN {ListToBag((IF fault \in {"improvements", "generate_skill_suggestions"}
                     THEN <<>>
                     ELSE generate_skill_suggestions(skill_gaps, job))
                        \o <<"Review and update your resume with job-specific keywords and skills">>)}
    ELSE UNION {{SetToBag(kept) :
                     kept \in KSubsets(ToSet(all), Min(10, Cardinality(ToSet(all))))} :
                    all \in AllSuggestions(resume, job, skill_gaps)}

\* a slip of generate_improvements: the list is returned as it was collected,
\* with its duplicates and at its full length
generate_improvements_as_collected(resume, job, skill_gaps) ==
    IF fault \in ImprovementFaults
    THEN {SetToBag({"Review and update your resume with job-specific keywords and skills"})}
    ELSE {ListToBag(all) : all \in AllSuggestions(resume, job, skill_gaps)}

\* the values generate_improvements can return, each as the bag of the
\* entries of the list: list(set(suggestions)) has the order in which the
\* set is iterated, which is any order, so that [:10] keeps any ten of the
\* suggestions, in any order.  The single fallback suggestion when the body
\* raises
generate_improvements(resume, job, skill_gaps) ==
    IF fault \in ImprovementFaults
    THEN {SetToBag({"Review and update your resume with job-specific keywords and skills"})}
    ELSE UNION {{SetToBag(kept) :
                     kept \in KSubsets(ToSet(all), Min(10, Cardinality(ToSet(all))))} :
                    all \in AllSuggestions(resume, job, skill_gaps)}

(***************************************************************************)
(* prioritize_missing_skills, suggest_alternative_skills and               *)
(* categorize_skills, src/utils/skill_analyzer.py:87-196.                  *)
(***************************************************************************)
\* str.count(sub): the occurrences of sub in text that do not overlap,
\* counted from the left
RECURSIVE CountFrom(_, _, _)
CountFrom(text, sub, i) ==
    IF sub = "" THEN Len(text) + 1
    ELSE IF i + Len(sub) - 1 > Len(text) THEN 0
    ELSE IF SubSeq(text, i, i + Len(sub) - 1) = sub
    THEN 1 + CountFrom(text, sub, i + Len(sub))
    ELSE CountFrom(text, sub, i + 1)

\* the keys of the dict skill_counts, in the order in which they are
\* inserted: every skill once, at the place where it is first
RECURSIVE DictKeys(_)
DictKeys(list) ==
    IF list = <<>> THEN <<>>
    ELSE LET before == DictKeys(SubSeq(list, 1, Len(list) - 1))
             key == list[Len(list)]
         IN  IF key \in ToSet(before) THEN before ELSE Append(before, key)

\* a sorted list with one more key, put after the keys whose count is not
\* less than its own
RECURSIVE InsertByCount(_, _, _)
InsertByCount(sorted, key, count) ==
    IF sorted = <<>> THEN <<key>>
    ELSE IF count[Head(sorted)] >= count[key]
    THEN <<Head(sorted)>> \o InsertByCount(Tail(sorted), key, count)
    ELSE <<key>> \o sorted

\* sorted(items, key=count, reverse=True): the sort is stable
RECURSIVE SortByCount(_, _)
SortByCount(keys, count) ==
    IF keys = <<>> THEN <<>>
    ELSE InsertByCount(SortByCount(SubSeq(keys, 1, Len(keys) - 1), count),
                       keys[Len(keys)], count)

\* the occurrences of every skill of a list in a job description
SkillCounts(missing, job_description) ==
    [skill \in ToSet(missing) |-> CountFrom(Lower(job_description), Lower(skill), 1)]

\* a slip of prioritize_missing_skills: the list is sorted ascending and
\* reversed, which reverses the skills of one count
prioritize_missing_skills_reversed(missing, job_description) ==
    IF fault = "prioritize_missing_skills" \/ missing = <<>> \/ job_description = ""
    THEN missing
    ELSE LET keys == DictKeys(missing)
             backwards == [i \in DOMAIN keys |-> keys[Len(keys) + 1 - i]]
         IN  SortByCount(backwards, SkillCounts(missing, job_description))

\* the handler returns the list it was given
prioritize_missing_skills(missing, job_description) ==
    IF fault = "prioritize_missing_skills" \/ missing = <<>> \/ job_description = ""
    THEN missing
    ELSE SortByCount(DictKeys(missing), SkillCounts(missing, job_description))

\* the dict skill_alternatives of suggest_alternative_skills
skill_alternatives ==
    [python |-> <<"java", "r", "scala", "julia">>,
     java |-> <<"kotlin", "scala", "c#", "python">>,
     javascript |-> <<"typescript", "coffeescript", "dart">>,
     sql |-> <<"nosql", "mongodb", "postgresql", "mysql">>,
     aws |-> <<"azure", "gcp", "heroku", "digitalocean">>,
     docker |-> <<"kubernetes", "podman", "containerd">>,
     react |-> <<"angular", "vue", "svelte", "ember">>,
     tensorflow |-> <<"pytorch", "keras", "scikit-learn", "xgboost">>,
     git |-> <<"svn", "mercurial", "perforce">>]
        @@ ("machine learning" :> <<"data science", "ai", "deep learning", "statistics">>)

\* the function has no try: what its body raises reaches the caller
suggest_alternative_skills_raises == fault = "suggest_alternative_skills"

\* the list suggest_alternative_skills returns when it raises nothing
suggest_alternative_skills(missing_skill) ==
    LET skill_lower == Lower(missing_skill)
    IN  IF skill_lower \in DOMAIN skill_alternatives
        THEN [i \in DOMAIN skill_alternatives[skill_lower] |->
                 Title(skill_alternatives[skill_lower][i])]
        ELSE <<>>

\* the dict technical_categories of categorize_skills, in its order
technical_categories ==
    <<[category |-> "Programming Languages",
       skills |-> {"python", "java", "javascript", "c++", "c#", "ruby", "php",
                   "swift", "kotlin", "r", "scala"}],
      [category |-> "Databases",
       skills |-> {"sql", "mysql", "postgresql", "mongodb", "redis",
                   "elasticsearch", "oracle"}],
      [category |-> "Web Technologies",
       skills |-> {"html", "css", "react", "angular", "vue", "node.js", "django",
                   "flask", "spring"}],
      [category |-> "Cloud Platforms",
       skills |-> {"aws", "azure", "gcp", "heroku", "digitalocean"}],
      [category |-> "DevOps & Tools",
       skills |-> {"docker", "kubernetes", "jenkins", "git", "linux", "bash"}],
      [category |-> "AI/ML",
       skills |-> {"machine learning", "deep learning", "nlp", "computer vision",
                   "tensorflow", "pytorch", "scikit-learn"}]>>

\* the list soft_skills of categorize_skills
categorize_soft_skills ==
    {"communication", "leadership", "teamwork", "problem solving", "analytical",
     "project management"}

\* a slip of categorize_skills: the soft skills are looked up in the tables of
\* the technical categories as well
categorize_skills_soft_from_all(skills) ==
    IF fault = "categorize_skills" THEN NoCategories
    ELSE LET matching == [k \in DOMAIN technical_categories |->
                 LET found == Filter(skills, {i \in DOMAIN skills :
                                 Lower(skills[i]) \in technical_categories[k].skills})
                 IN  [category |-> technical_categories[k].category,
                      skills |-> [i \in DOMAIN found |-> Title(found[i])]]]
             listed == UNION {technical_categories[k].skills : k \in DOMAIN technical_categories}
         IN  [technical |-> Filter(matching, {k \in DOMAIN matching :
                                                  matching[k].skills # <<>>}),
              soft |-> Filter(skills, {i \in DOMAIN skills :
                                          Lower(skills[i]) \in categorize_soft_skills \cup listed})]

\* the record categorize_skills returns: the categories that have a skill of
\* the list, each with its skills in title case, and the soft skills as
\* they are written; the empty record when the body raises
categorize_skills(skills) ==
    IF fault = "categorize_skills" THEN NoCategories
    ELSE LET matching == [k \in DOMAIN technical_categories |->
                 LET found == Filter(skills, {i \in DOMAIN skills :
                                 Lower(skills[i]) \in technical_categories[k].skills})
                 IN  [category |-> technical_categories[k].category,
                      skills |-> [i \in DOMAIN found |-> Title(found[i])]]]
         IN  [technical |-> Filter(matching, {k \in DOMAIN matching :
                                                  matching[k].skills # <<>>}),
              soft |-> Filter(skills, {i \in DOMAIN skills :
                                          Lower(skills[i]) \in categorize_soft_skills})]

(***************************************************************************)
(* calculate_keyword_match_score, src/utils/similarity_scorer.py:246-277.  *)
(***************************************************************************)
\* the values the function can return, in tenths: the part of the keywords
\* that are a token of the resume or a substring of it, as a percentage
\* rounded to one decimal; 0.0 when its body raises
calculate_keyword_match_score(resume, job_keywords) ==
    IF \/ fault = "calculate_keyword_match_score"
       \/ resume = ""
       \/ job_keywords = <<>>
       \/ tokenize_text_raises(Lower(resume))
    THEN {0}
    ELSE LET resume_token_set == ToSet(remove_stopwords(tokenize_text(Lower(resume))))
             matched_keywords ==
                 Cardinality({i \in DOMAIN job_keywords :
                                  \/ Lower(job_keywords[i]) \in resume_token_set
                                  \/ Contains(Lower(resume), Lower(job_keywords[i]))})
         IN  RoundDiv(matched_keywords * 1000, Len(job_keywords))

(***************************************************************************)
(* Inputs: raw texts are concatenations of at most MaxPieces pieces.       *)
(***************************************************************************)
CleanPieces ==
    {"http", "s", "www", "@", "a", "B", " ", "\t", ".", ":", "555", "-555", "-4567"}

RECURSIVE Concats(_, _)
Concats(pieces, n) ==
    IF n = 0 THEN {""}
    ELSE LET shorter == Concats(pieces, n - 1)
         IN  shorter \cup {t \o p : t \in shorter, p \in pieces}

RawTexts == Concats(CleanPieces, MaxPieces)

(***************************************************************************)
(* SpecClean: clean_text applied to a raw text, then to its own output.    *)
(***************************************************************************)
\* the variables of the page, of the shared data and of the calls a
\* specification does not make
PipeIdle ==
    /\ swapped_similarity = NoSimilarity
    /\ stage_results = <<>>
    /\ file_text = ""
    /\ uploaded_file = ""
    /\ analyze_button = FALSE
    /\ extractable = TRUE
    /\ cleaned_resume = ""
    /\ cleaned_job = ""
    /\ invoked = <<>>
    /\ displayed = "nothing"
    /\ structure_suggestions = <<>>
    /\ technical_skills = TECHNICAL_SKILLS
    /\ soft_skills = SOFT_SKILLS
    /\ corpus_stopwords = NLTK_STOPWORDS
    /\ local_stop_words = {}
    /\ filtered_tokens = <<>>
    /\ calls = 0

InitClean ==
    /\ pc = "start"
    /\ raw \in RawTexts
    /\ cleaned = ""
    /\ recleaned = ""
    /\ GapIdle
    /\ ReadIdle
    /\ ExtractIdle
    /\ ScoreIdle
    /\ SuggestIdle
    /\ CallIdle
    /\ PipeIdle

Normalize ==
    /\ pc = "start"
    /\ cleaned' = clean_text(raw)
    /\ pc' = "cleaned"
    /\ UNCHANGED <<raw, recleaned, gapVars, readVars, extractVars, scoreVars, suggestVars, callVars, pipeVars>>

Renormalize ==
    /\ pc = "cleaned"
    /\ recleaned' = clean_text(cleaned)
    /\ pc' = "recleaned"
    /\ UNCHANGED <<raw, cleaned, gapVars, readVars, extractVars, scoreVars, suggestVars, callVars, pipeVars>>

NextClean == Normalize \/ Renormalize

SpecClean == InitClean /\ [][NextClean]_vars

(***************************************************************************)
(* Claims about clean_text.                                                *)
(***************************************************************************)
\* C1: clean_text is idempotent, clean_text(clean_text(x)) = clean_text(x)
\* for every text x, and clean_text("") = "".
C1_Idempotent ==
    /\ (pc = "recleaned" => recleaned = cleaned)
    /\ (pc # "start" /\ raw = "" => cleaned = "")

\* a text that loses a URL, an e-mail address or a phone number and is left
\* with words has been cleaned twice
C1_Witness ==
    /\ pc = "recleaned"
    /\ cleaned # ""
    /\ Len(cleaned) < Len(Strip(raw))
    /\ \/ Contains(Lower(raw), "www")
       \/ Contains(raw, "@")
       \/ Contains(raw, "555-555-4567")

\* every occurrence of "http" in t ends a run of non-whitespace characters
HttpOnlyBare(t) ==
    \A i \in 1..Len(t) :
        PrefixAt(t, i, "http") => (i + 4 > Len(t) \/ IsSpace(CharAt(t, i + 4)))

\* C2 as stated: the output of clean_text is lowercase and contains none of
\* "http", "https" and "@".
C2_NoHttpAtAll ==
    pc # "start" =>
        /\ cleaned = Lower(cleaned)
        /\ ~Contains(cleaned, "http")
        /\ ~Contains(cleaned, "https")
        /\ ~Contains(cleaned, "@")

\* C2 as amended: the output of clean_text is lowercase, contains neither
\* "@" nor "https", and contains "http" only where no non-whitespace
\* character follows it (a bare "http" is kept).
C2_NoUrlNoAt ==
    pc # "start" =>
        /\ cleaned = Lower(cleaned)
        /\ ~Contains(cleaned, "https")
        /\ ~Contains(cleaned, "@")
        /\ HttpOnlyBare(cleaned)

\* an upper-case text with a URL and an e-mail address has been cleaned and
\* words are left of it
C2_Witness ==
    /\ pc = "cleaned"
    /\ cleaned # ""
    /\ raw # Lower(raw)
    /\ \/ Contains(Lower(raw), "https")
       \/ Contains(raw, "@")

(***************************************************************************)
(* SpecGaps: the skill gap analysis and the overlap analysis, in both      *)
(* directions, of two skill lists.                                         *)
(***************************************************************************)
\* skills as a caller may write them: any case, several words, punctuation,
\* the same skill twice
SkillPool == {"python", "Python", "AWS", "node.js"}

RECURSIVE ListsUpTo(_, _)
ListsUpTo(pool, n) ==
    IF n = 0 THEN {<<>>}
    ELSE LET shorter == ListsUpTo(pool, n - 1)
         IN  shorter \cup {Append(l, x) : l \in shorter, x \in pool}

SkillLists == ListsUpTo(SkillPool, MaxSkills)

InitGaps ==
    /\ pc = "start"
    /\ resume_skills \in SkillLists
    /\ job_skills \in SkillLists
    /\ gaps = <<>>
    /\ overlap = NoOverlap
    /\ overlap_swapped = NoOverlap
    /\ CleanIdle
    /\ ReadIdle
    /\ ExtractIdle
    /\ ScoreIdle
    /\ SuggestIdle
    /\ CallIdle
    /\ PipeIdle

AnalyzeGaps ==
    /\ pc = "start"
    /\ gaps' \in analyze_skill_gaps(resume_skills, job_skills)
    /\ pc' = "gaps"
    /\ UNCHANGED <<resume_skills, job_skills, overlap, overlap_swapped, cleanVars, readVars, extractVars, scoreVars, suggestVars, callVars, pipeVars>>

OverlapAnalysis ==
    /\ pc = "gaps"
    /\ overlap' \in get_skill_overlap_analysis(resume_skills, job_skills)
    /\ pc' = "overlap"
    /\ UNCHANGED <<resume_skills, job_skills, gaps, overlap_swapped, cleanVars, readVars, extractVars, scoreVars, suggestVars, callVars, pipeVars>>

OverlapAnalysisSwapped ==
    /\ pc = "overlap"
    /\ overlap_swapped' \in get_skill_overlap_analysis(job_skills, resume_skills)
    /\ pc' = "swapped"
    /\ UNCHANGED <<resume_skills, job_skills, gaps, overlap, cleanVars, readVars, extractVars, scoreVars, suggestVars, callVars, pipeVars>>

NextGaps == AnalyzeGaps \/ OverlapAnalysis \/ OverlapAnalysisSwapped

SpecGaps == InitGaps /\ [][NextGaps]_vars

(***************************************************************************)
(* Claims about the skill analysis.                                        *)
(***************************************************************************)
\* every letter of s is upper case where no letter precedes it and lower
\* case where one does
IsTitleCased(s) ==
    \A i \in 1..Len(s) :
        CharAt(s, i) \in LetterSet =>
            IF i > 1 /\ CharAt(s, i - 1) \in LetterSet
            THEN CharAt(s, i) \in LowerSet
            ELSE CharAt(s, i) \in UpperSet

IsSortedAscending(list) ==
    \A i \in 1..(Len(list) - 1) : StrLess(list[i], list[i + 1])

\* C6: analyze_skill_gaps(R, J) is the case-insensitive difference J - R,
\* title-cased and sorted: no entry matches an entry of R without regard to
\* case, every skill of J that no entry of R matches is in it (so every
\* skill of J when R is empty), and it is empty when J is empty.
C6_GapsIsDifference ==
    pc # "start" =>
        /\ \A i \in DOMAIN gaps : \A j \in DOMAIN resume_skills :
               Lower(gaps[i]) # Lower(resume_skills[j])
        /\ \A i \in DOMAIN gaps : \E j \in DOMAIN job_skills :
               Lower(gaps[i]) = Lower(job_skills[j])
        /\ \A j \in DOMAIN job_skills :
               \/ \E k \in DOMAIN resume_skills :
                      Lower(resume_skills[k]) = Lower(job_skills[j])
               \/ \E i \in DOMAIN gaps : Lower(gaps[i]) = Lower(job_skills[j])
        /\ \A i \in DOMAIN gaps : IsTitleCased(gaps[i])
        /\ IsSortedAscending(gaps)
        /\ (job_skills = <<>> => gaps = <<>>)

\* the job asks for a skill the resume has in another spelling and for one
\* the resume lacks; the gap found is written differently from the request
C6_Witness ==
    /\ pc = "gaps"
    /\ Len(gaps) = 1
    /\ Len(job_skills) = 2
    /\ gaps[1] \notin ToSet(job_skills)
    /\ \E i \in DOMAIN job_skills : \E j \in DOMAIN resume_skills :
           job_skills[i] # resume_skills[j]
               /\ Lower(job_skills[i]) = Lower(resume_skills[j])

\* C8: the overlap analysis of (A, B) and of (B, A) have the same matching
\* skills as a set; the missing skills of one are the extra skills of the
\* other.
C8_OverlapSymmetric ==
    pc = "swapped" =>
        /\ ToSet(overlap.matching_skills) = ToSet(overlap_swapped.matching_skills)
        /\ Len(overlap.matching_skills) = Len(overlap_swapped.matching_skills)
        /\ ToSet(overlap.missing_skills) = ToSet(overlap_swapped.extra_skills)
        /\ Len(overlap.missing_skills) = Len(overlap_swapped.extra_skills)
        /\ ToSet(overlap.extra_skills) = ToSet(overlap_swapped.missing_skills)
        /\ Len(overlap.extra_skills) = Len(overlap_swapped.missing_skills)

\* both directions have been analysed for two lists that share a skill and
\* have each a skill the other lacks
C8_Witness ==
    /\ pc = "swapped"
    /\ overlap.matching_skills # <<>>
    /\ overlap.missing_skills # <<>>
    /\ overlap.extra_skills # <<>>
    /\ overlap.missing_skills # overlap.extra_skills

(***************************************************************************)
(* SpecRead: get_readability_score applied to a text.                      *)
(***************************************************************************)
\* vowels, a final "e", a consonant, an upper-case letter, the sentence end
\* and the space
ReadChars == {"a", "e", "b", "E", ".", " "}

ReadTexts == Concats(ReadChars, MaxChars)

InitRead ==
    /\ pc = "start"
    /\ read_text \in ReadTexts
    /\ readability = NoReadability
    /\ CleanIdle
    /\ GapIdle
    /\ ExtractIdle
    /\ ScoreIdle
    /\ SuggestIdle
    /\ CallIdle
    /\ PipeIdle

Readability ==
    /\ pc = "start"
    /\ readability' \in get_readability_score(read_text)
    /\ pc' = "read"
    /\ UNCHANGED <<read_text, cleanVars, gapVars, extractVars, scoreVars, suggestVars, callVars, pipeVars>>

NextRead == Readability

SpecRead == InitRead /\ [][NextRead]_vars

(***************************************************************************)
(* Claims about get_readability_score.                                     *)
(***************************************************************************)
\* C9: get_readability_score returns, for every text, a Flesch reading ease
\* between 0 and 100, which is 0 when it counts no sentence or no word; the
\* average of words per sentence is 0 when it counts no sentence.
C9_FleschInRange ==
    pc = "read" =>
        /\ readability.flesch_reading_ease \in 0..1000
        /\ (readability.total_sentences = 0 \/ readability.total_words = 0
               => readability.flesch_reading_ease = 0)
        /\ (readability.total_sentences = 0 => readability.avg_words_per_sentence = 0)
        /\ readability.total_words = Len(Split(read_text))
        /\ (readability.total_sentences = 0 <=>
               \A i \in 1..Len(read_text) :
                   IsSpace(CharAt(read_text, i)) \/ CharAt(read_text, i) = ".")

\* a text of full stops only: a word is counted and no sentence
C9_Witness ==
    /\ pc = "read"
    /\ readability.total_sentences = 0
    /\ readability.total_words > 0

(***************************************************************************)
(* SpecExtract: extract_skills applied to a text, with and without the     *)
(* NLTK tokenizer data.                                                    *)
(***************************************************************************)
\* words that are skills, hold a skill ("javascript" holds "java", "mysql"
\* holds "sql", "interest" holds "rest"), make a skill of two words, lose a
\* skill to clean_text ("node.js") or are no skill
WordPool ==
    {"Python", "python,", "javascript", "machine", "learning", "mysql",
     "node.js", "interest", "and"}

\* the texts of at most n words of the pool, separated by a space
RECURSIVE Phrases(_, _)
Phrases(pool, n) ==
    IF n = 0 THEN {""}
    ELSE LET shorter == Phrases(pool, n - 1)
         IN  shorter \cup {IF t = "" THEN w ELSE t \o " " \o w :
                               t \in shorter, w \in pool}

SkillTexts == Phrases(WordPool, MaxWords)

InitExtract ==
    /\ pc = "start"
    /\ punkt \in BOOLEAN
    /\ skill_text \in SkillTexts
    /\ found_skills = <<>>
    /\ CleanIdle
    /\ GapIdle
    /\ ReadIdle
    /\ ScoreIdle
    /\ SuggestIdle
    /\ CallIdle
    /\ PipeIdle

ExtractSkills ==
    /\ pc = "start"
    /\ found_skills' \in extract_skills(skill_text)
    /\ pc' = "extracted"
    /\ UNCHANGED <<punkt, skill_text, cleanVars, gapVars, readVars, scoreVars, suggestVars, callVars, pipeVars>>

NextExtract == ExtractSkills

SpecExtract == InitExtract /\ [][NextExtract]_vars

(***************************************************************************)
(* Claims about extract_skills.                                            *)
(***************************************************************************)
\* C7: the list extract_skills returns is sorted ascending and has no two
\* entries that are equal without regard to case; it is empty for the
\* empty text.
C7_SortedNoDuplicates ==
    pc = "extracted" =>
        /\ IsSortedAscending(found_skills)
        /\ \A i, j \in DOMAIN found_skills :
               i # j => Lower(found_skills[i]) # Lower(found_skills[j])
        /\ (skill_text = "" => found_skills = <<>>)

\* a text that names a skill twice, in two spellings, and holds two more
\* has had its skills extracted
C7_Witness ==
    /\ pc = "extracted"
    /\ Len(found_skills) >= 3
    /\ Contains(skill_text, "python, ")
    /\ Contains(skill_text, "Python")

(***************************************************************************)
(* SpecScore: calculate_similarity_score applied to a resume and a job     *)
(* description, with and without the NLTK data, and with an exception      *)
(* raised in the body of one of the scoring functions.                     *)
(***************************************************************************)
\* words that hold two skills each, a skill in upper case, a word that is
\* no skill and a stop word
ScorePool == {"javascript", "mysql", "Python", "developer", "with"}

ScoreResumes == Phrases(ScorePool, MaxScoreWords)

\* the empty text, a stop word alone, one term alone, four skills, five
\* skills and a word, and the job description of tests/test_basic.py
ScoreJobs ==
    {"", "with", "python", "mysql javascript", "javascript mysql python developer",
     "Python developer with Django and Flask experience"}

\* nothing is missing and nothing raises; the tokenizer data, the stop word
\* corpus or both are missing; the body of one scoring function raises
ScoreEnvironments ==
    {[punkt |-> p, stopwords_corpus |-> c, fault |-> "none"] : p, c \in BOOLEAN}
        \cup {[punkt |-> TRUE, stopwords_corpus |-> TRUE, fault |-> f] :
                  f \in {"tfidf", "jaccard", "skill", "hybrid"}}

InitScore ==
    /\ pc = "start"
    /\ \E env \in ScoreEnvironments :
           /\ punkt = env.punkt
           /\ stopwords_corpus = env.stopwords_corpus
           /\ fault = env.fault
    /\ resume_text \in ScoreResumes
    /\ job_text \in ScoreJobs
    /\ similarity = NoSimilarity
    /\ richer_text = ""
    /\ richer_similarity = NoSimilarity
    /\ skill_text = ""
    /\ found_skills = <<>>
    /\ CleanIdle
    /\ GapIdle
    /\ ReadIdle
    /\ SuggestIdle
    /\ CallIdle
    /\ PipeIdle

Score ==
    /\ pc = "start"
    /\ similarity' \in calculate_similarity_score(resume_text, job_text)
    /\ pc' = "scored"
    /\ UNCHANGED <<stopwords_corpus, fault, resume_text, job_text, richer_text,
                   richer_similarity, cleanVars, gapVars, readVars, extractVars, suggestVars, callVars, pipeVars>>

NextScore == Score

SpecScore == InitScore /\ [][NextScore]_vars

(***************************************************************************)
(* Claims about calculate_similarity_score.                                *)
(***************************************************************************)
\* C3: calculate_similarity_score returns 0.0 when the resume or the job
\* description is empty, whatever the other text is.
C3_EmptyScoresZero ==
    pc = "scored" /\ (resume_text = "" \/ job_text = "") =>
        similarity.hybrid_score = 0

\* an empty resume has been scored against a job description that names
\* skills, and nothing has raised
C3_Witness ==
    /\ pc = "scored"
    /\ resume_text = ""
    /\ extract_skills(job_text) # {<<>>}
    /\ fault = "none"

\* C4: the score calculate_similarity_score returns is between 0.0 and
\* 100.0, also when the vectorizer fails, when the NLTK data is missing and
\* when the body of a scoring function raises.
C4_ScoreInRange ==
    pc = "scored" => similarity.hybrid_score \in 0..1000

\* the body of calculate_similarity_score has raised for two texts that are
\* not empty
C4_Witness ==
    /\ pc = "scored"
    /\ fault = "hybrid"
    /\ resume_text # ""
    /\ job_text # ""

(***************************************************************************)
(* SpecCompare: two resumes scored against one job description.  The second *)
(* resume is the first with one more word of the job description in it, or *)
(* the two are the resumes tests/test_basic.py compares.                   *)
(***************************************************************************)
\* words that are no skill and a skill
ComparePool == {"developer", "experience", "team", "python"}

CompareResumes == Phrases(ComparePool, MaxScoreWords)

CompareJobs == {"developer experience team", "python developer team"}

\* text1, text2 and text3 of test_similarity_scoring
TestedRicher == "Python developer with Django experience"
TestedResume == "Java developer with Spring experience"
TestedJob == "Python developer with Django and Flask experience"

\* list.insert(p, w) on the words of a text
InsertWord(words, p, w) ==
    SubSeq(words, 1, p) \o <<w>> \o SubSeq(words, p + 1, Len(words))

\* the texts made of resume by putting one word of job that resume lacks
\* between two of its words, before them or after them
Insertions(resume, job) ==
    LET words == Split(resume)
    IN  {Join(" ", InsertWord(words, p, w)) :
             p \in 0..Len(words), w \in ToSet(Split(job)) \ ToSet(words)}

InitCompare ==
    /\ pc = "start"
    /\ \/ /\ resume_text \in CompareResumes
          /\ job_text \in CompareJobs
          /\ richer_text \in Insertions(resume_text, job_text)
       \/ /\ resume_text = TestedResume
          /\ job_text = TestedJob
          /\ richer_text = TestedRicher
    /\ similarity = NoSimilarity
    /\ richer_similarity = NoSimilarity
    /\ stopwords_corpus = TRUE
    /\ fault = "none"
    /\ ExtractIdle
    /\ CleanIdle
    /\ GapIdle
    /\ ReadIdle
    /\ SuggestIdle
    /\ CallIdle
    /\ PipeIdle

ScoreRicher ==
    /\ pc = "scored"
    /\ richer_text # ""
    /\ richer_similarity' \in calculate_similarity_score(richer_text, job_text)
    /\ pc' = "compared"
    /\ UNCHANGED <<stopwords_corpus, fault, resume_text, job_text, richer_text,
                   similarity, cleanVars, gapVars, readVars, extractVars, suggestVars, callVars, pipeVars>>

NextCompare == Score \/ ScoreRicher

SpecCompare == InitCompare /\ [][NextCompare]_vars

(***************************************************************************)
(* Claims about the order of the scores.                                   *)
(***************************************************************************)
\* the skills extract_skills finds in a text, as a set
SkillSet(t) == UNION {ToSet(found) : found \in extract_skills(t)}

\* the words of a text in lower case, as a set
WordSet(t) == ToSet(Split(Lower(t)))

SuggestResumes ==
    {"", "python developer", "led led led led", "python python python python",
     "developed python", "aws developer team"}

SuggestJobs == {"", "with", "python developer", "python aws developer team"}

GapPool == {"Python", "Aws"}

SuggestGaps ==
    ListsUpTo(GapPool, MaxGaps)
        \cup {<<"Python", "Aws", "Sql", "Git", "Java", "Docker">>}

\* the tokenizer data is there or missing; the body of generate_improvements,
\* one of the four families or get_similarity_details raises
SuggestEnvironments ==
    {[punkt |-> p, fault |-> "none"] : p \in BOOLEAN}
        \cup {[punkt |-> TRUE, fault |-> f] : f \in ImprovementFaults \cup {"details"}}

InitSuggest ==
    /\ pc = "start"
    /\ \E env \in SuggestEnvironments :
           /\ punkt = env.punkt
           /\ fault = env.fault
    /\ stopwords_corpus = TRUE
    /\ resume_text \in SuggestResumes
    /\ job_text \in SuggestJobs
    /\ suggest_gaps \in SuggestGaps
    /\ suggestions = EmptyBag
    /\ similarity = NoSimilarity
    /\ richer_text = ""
    /\ richer_similarity = NoSimilarity
    /\ skill_text = ""
    /\ found_skills = <<>>
    /\ CleanIdle
    /\ GapIdle
    /\ ReadIdle
    /\ CallIdle
    /\ PipeIdle

Suggest ==
    /\ pc = "start"
    /\ suggestions' \in generate_improvements(resume_text, job_text, suggest_gaps)
    /\ pc' = "suggested"
    /\ UNCHANGED <<suggest_gaps, cleanVars, gapVars, readVars, extractVars, scoreVars, callVars, pipeVars>>

NextSuggest == Suggest

SpecSuggest == InitSuggest /\ [][NextSuggest]_vars

(***************************************************************************)
(* Claims about generate_improvements.                                     *)
(***************************************************************************)
\* C10: for every resume, job description and list of missing skills, the
\* list generate_improvements returns has at most 10 entries and no entry is
\* in it twice.
C10_AtMostTenNoDuplicates ==
    pc = "suggested" =>
        /\ BagCardinality(suggestions) <= 10
        /\ \A entry \in BagToSet(suggestions) : CopiesIn(entry, suggestions) = 1

\* a call that collected more than 10 different suggestions and one of them
\* twice, and returned 10
C10_Witness ==
    /\ pc = "suggested"
    /\ fault = "none"
    /\ BagCardinality(suggestions) = 10
    /\ \E all \in AllSuggestions(resume_text, job_text, suggest_gaps) :
           /\ Cardinality(ToSet(all)) > 10
           /\ Len(all) > Cardinality(ToSet(all))

(***************************************************************************)
(* Claims about the parts of the score.                                    *)
(***************************************************************************)
\* C12: for two texts that are not empty, calculate_similarity_score returns
\* 0.4 times the score of calculate_tfidf_similarity plus 0.6 times the score
\* of calculate_skill_similarity for the same two texts, held between 0 and
\* 100 and rounded to one decimal place: the returned score is a nearest
\* tenth.  The body of calculate_similarity_score itself does not raise.
C12_HybridIsWeightedSum ==
    pc = "scored" /\ resume_text # "" /\ job_text # "" /\ fault # "hybrid" =>
        LET weighted == 4 * similarity.tfidf_score + 6 * similarity.skill_score
            clamped == IF weighted < 0 THEN 0
                       ELSE IF weighted > 10 * Full THEN 10 * Full
                       ELSE weighted
        IN  /\ similarity.tfidf_score \in calculate_tfidf_similarity(resume_text, job_text)
            /\ similarity.skill_score \in calculate_skill_similarity(resume_text, job_text)
            /\ 2 * (1000 * similarity.hybrid_score - clamped) \in -1000..1000

\* two texts have been scored that share terms and skills, with a text
\* score and a skill score that differ
C12_Witness ==
    /\ pc = "scored"
    /\ fault = "none"
    /\ similarity.tfidf_score > 0
    /\ similarity.skill_score > 0
    /\ similarity.tfidf_score # similarity.skill_score
    /\ similarity.hybrid_score < 1000

\* C13: the score of calculate_skill_similarity is 0 when no skill is found
\* in the resume or none in the job description; else, for the skills R of
\* the resume and J of the job description, it is 100 * min(1, 1.2 * |R
\* \cap J| / |R \cup J|) when at least 3 skills are common and 100 * |R \cap
\* J| / |R \cup J| when fewer are; it is between 0 and 100.  The score is
\* held in thousandths, rounded down.  The body of the function does not
\* raise.
C13_SkillScoreFormula ==
    pc = "scored" /\ resume_text # "" /\ job_text # ""
                  /\ fault \notin {"skill", "hybrid"} =>
        LET R == SkillSet(resume_text)
            J == SkillSet(job_text)
            common == Cardinality(R \cap J)
            total == Cardinality(R \cup J)
            score == similarity.skill_score
        IN  /\ score \in 0..Full
            /\ R = {} \/ J = {} => score = 0
            /\ R # {} /\ J # {} /\ common < 3 =>
                   /\ total * score <= common * Full
                   /\ common * Full < total * (score + 1)
            /\ R # {} /\ J # {} /\ common >= 3 /\ 12 * common >= 10 * total =>
                   score = Full
            /\ R # {} /\ J # {} /\ common >= 3 /\ 12 * common < 10 * total =>
                   /\ 10 * total * score <= 12 * common * Full
                   /\ 12 * common * Full < 10 * total * (score + 1)

\* four skills have been found in both texts and no other: the boosted
\* score is held at 100
C13_Witness ==
    /\ pc = "scored"
    /\ fault = "none"
    /\ Cardinality(SkillSet(resume_text) \cap SkillSet(job_text)) >= 3
    /\ SkillSet(resume_text) = SkillSet(job_text)
    /\ similarity.skill_score = Full

(***************************************************************************)
(* Claims about the skills extract_skills finds.                           *)
(***************************************************************************)
\* C14: for every text, extract_skills returns the title-cased entries of the
\* technical and of the soft vocabulary, the entries of several words
\* among them, that are substrings of the cleaned text, with the
\* title-cased tokens of the cleaned text that are entries of the
\* vocabulary, and nothing else.
C14_SubstringsAndTokens ==
    pc = "extracted" =>
        LET vocabulary == TECHNICAL_SKILLS \cup SOFT_SKILLS
            normalized == clean_text(skill_text)
            tokens == tokenize_text(normalized)
            substrings == {entry \in vocabulary : Contains(normalized, entry)}
            members == {Lower(tokens[i]) : i \in DOMAIN tokens} \cap vocabulary
        IN  ToSet(found_skills) = {Title(entry) : entry \in substrings \cup members}

\* the skills of a text have been extracted that holds an entry of two
\* words and an entry inside a longer word
C14_Witness ==
    /\ pc = "extracted"
    /\ "Machine Learning" \in ToSet(found_skills)
    /\ "Java" \in ToSet(found_skills)
    /\ ~Contains(skill_text, "java ")

(***************************************************************************)
(* SpecCleanFault: clean_text applied to a raw text when one statement of  *)
(* its body raises.                                                        *)
(***************************************************************************)
InitCleanFault ==
    /\ pc = "start"
    /\ raw \in RawTexts
    /\ cleaned = ""
    /\ recleaned = ""
    /\ \E k \in DOMAIN CleanFaults : fault = CleanFaults[k]
    /\ stopwords_corpus = TRUE
    /\ resume_text = ""
    /\ job_text = ""
    /\ similarity = NoSimilarity
    /\ richer_text = ""
    /\ richer_similarity = NoSimilarity
    /\ GapIdle
    /\ ReadIdle
    /\ ExtractIdle
    /\ SuggestIdle
    /\ CallIdle
    /\ PipeIdle

NextCleanFault == Normalize

SpecCleanFault == InitCleanFault /\ [][NextCleanFault]_vars

\* C15: when a statement of the body of clean_text raises, whichever it is,
\* clean_text does not raise and returns the text it was given, unchanged,
\* and not a text that is cleaned in part.
C15_FaultReturnsOriginal ==
    pc = "cleaned" => cleaned = raw

(***************************************************************************)
(* SpecTokenize: tokenize_text, src/utils/nlp_processor.py:88-130, one     *)
(* action for the guard and one for each of its four methods.              *)
(***************************************************************************)
\* a word, a word of one character, a number, a word with a digit, a word
\* in parentheses, a word the Treebank tokenizer splits, and white space
TokenPool == {"Python", "a", "42", "x1", "(dev).", "cannot", " "}

PlainTokenPool == {"Python", "a", "42", "x1", "cannot", " "}

\* the tokenizer data is found, is missing, or is found and cannot be used;
\* with the data missing, the regex tokenizer works or raises.  The texts
\* handed to word_tokenize have no punctuation
InitTokenize ==
    /\ pc = "start"
    /\ \/ /\ punkt = TRUE
          /\ fault \in {"none", "tokenize_text.word_tokenize"}
          /\ tok_text \in Phrases(PlainTokenPool, MaxTokenWords)
       \/ /\ punkt = FALSE
          /\ fault \in {"none", "tokenize_text.regex"}
          /\ tok_text \in Phrases(TokenPool, MaxTokenWords)
    /\ tok_tried = <<>>
    /\ tok_result = <<>>
    /\ exception = "none"
    /\ skill_list = <<>>
    /\ skill_name = ""
    /\ statistics = NoStatistics
    /\ details = NoDetails
    /\ keyword_score = 0
    /\ prioritized = <<>>
    /\ alternative_skills = <<>>
    /\ categorized = NoCategories
    /\ skill_suggestions = <<>>
    /\ PipeIdle
    /\ stopwords_corpus = TRUE
    /\ resume_text = ""
    /\ job_text = ""
    /\ similarity = NoSimilarity
    /\ richer_text = ""
    /\ richer_similarity = NoSimilarity
    /\ skill_text = ""
    /\ found_skills = <<>>
    /\ CleanIdle
    /\ GapIdle
    /\ ReadIdle
    /\ SuggestIdle

\* what the actions of tokenize_text leave alone
TokenizeFrame ==
    UNCHANGED <<tok_text, skill_list, skill_name, statistics, details, keyword_score,
                prioritized, alternative_skills, categorized, skill_suggestions,
                cleanVars, gapVars, readVars, extractVars, scoreVars, suggestVars, pipeVars>>

\* lines 98-99
TokenizeGuard ==
    /\ pc = "start"
    /\ IF tok_text = "" \/ Strip(tok_text) = ""
       THEN tok_result' = <<>> /\ pc' = "returned"
       ELSE tok_result' = tok_result /\ pc' = "method1"
    /\ UNCHANGED <<tok_tried, exception>>
    /\ TokenizeFrame

\* a call of word_tokenize in a try that catches LookupError and ImportError,
\* followed by the method at next
TryWordTokenize(here, next) ==
    /\ pc = here
    /\ tok_tried' = Append(tok_tried, "word_tokenize")
    /\ IF ~punkt
       THEN pc' = next /\ UNCHANGED <<tok_result, exception>>
       ELSE IF WordTokenizeFails
       THEN pc' = "raised" /\ exception' = "tokenize_text" /\ UNCHANGED tok_result
       ELSE pc' = "returned" /\ tok_result' = word_tokenize(tok_text)
                             /\ UNCHANGED exception
    /\ TokenizeFrame

\* lines 101-106
TokenizeMethod1 == TryWordTokenize("method1", "method2")

\* a slip of method 2: when it fails the regex tokenizer is passed over
TokenizeMethod2_then_split == TryWordTokenize("method2", "method4")

\* lines 108-114
TokenizeMethod2 == TryWordTokenize("method2", "method3")

\* lines 116-125: any exception is caught
TokenizeMethod3 ==
    /\ pc = "method3"
    /\ tok_tried' = Append(tok_tried, "regex")
    /\ IF fault = "tokenize_text.regex"
       THEN pc' = "method4" /\ UNCHANGED tok_result
       ELSE pc' = "returned" /\ tok_result' = regex_tokenize(tok_text)
    /\ UNCHANGED exception
    /\ TokenizeFrame

\* lines 127-130
TokenizeMethod4 ==
    /\ pc = "method4"
    /\ tok_tried' = Append(tok_tried, "split")
    /\ tok_result' = split_tokenize(tok_text)
    /\ pc' = "returned"
    /\ UNCHANGED exception
    /\ TokenizeFrame

NextTokenize ==
    \/ TokenizeGuard
    \/ TokenizeMethod1
    \/ TokenizeMethod2
    \/ TokenizeMethod3
    \/ TokenizeMethod4

SpecTokenize == InitTokenize /\ [][NextTokenize]_vars

\* the list tokenize_text returns is the value of the operator
TokenizeAgrees ==
    pc = "returned" => tok_result = tokenize_text(tok_text)

\* C16: tokenize_text returns the empty list for a text that is empty or
\* white space only, without trying a tokenizer.  For another text it tries
\* its tokenizers in order: word_tokenize first; the regex tokenizer, which
\* drops the tokens of one character and the tokens of digits only, only
\* after word_tokenize has failed for want of its data; the split at white
\* space only after the regex tokenizer has failed too; and it returns what
\* the first tokenizer that succeeds returns.
C16_TokenizersInOrder ==
    LET chain == <<"word_tokenize", "word_tokenize", "regex", "split">>
        regex_tried == \E i \in DOMAIN tok_tried : tok_tried[i] = "regex"
        split_tried == \E i \in DOMAIN tok_tried : tok_tried[i] = "split"
        last == tok_tried[Len(tok_tried)]
    IN  /\ Len(tok_tried) <= Len(chain)
        /\ tok_tried = SubSeq(chain, 1, Len(tok_tried))
        /\ regex_tried => ~punkt
        /\ split_tried => regex_tried /\ fault = "tokenize_text.regex"
        /\ Strip(tok_text) = "" /\ pc = "returned" =>
               tok_result = <<>> /\ tok_tried = <<>>
        /\ Strip(tok_text) # "" /\ pc = "returned" =>
               /\ tok_tried # <<>>
               /\ last = "word_tokenize" => punkt /\ tok_result = word_tokenize(tok_text)
               /\ last = "regex" =>
                      /\ tok_result = regex_tokenize(tok_text)
                      /\ \A i \in DOMAIN tok_result :
                             Len(tok_result[i]) > 1 /\ ~IsDigitString(tok_result[i])
               /\ last = "split" => tok_result = split_tokenize(tok_text)

\* the split at white space has returned tokens, after word_tokenize and
\* the regex tokenizer have failed
C16_Witness ==
    /\ pc = "returned"
    /\ tok_tried = <<"word_tokenize", "word_tokenize", "regex", "split">>
    /\ Len(tok_result) = 2

(***************************************************************************)
(* SpecDetails: get_similarity_details called once on two texts.           *)
(***************************************************************************)
\* the empty text, a stop word alone, texts of one to three words, a text
\* whose first word is there eight times, and texts of six and of seven
\* different words, which have eleven and thirteen terms
DetailTexts ==
    {"", "the", "python", "python developer", "developer team python",
     "aws sql", "team aws",
     "ai ai ai ai ai ai ai ai team",
     "java led team aws sql git python", "developer git java led team aws",
     "php css html vue gcp api"}

InitDetails ==
    /\ pc = "start"
    /\ resume_text \in DetailTexts
    /\ job_text \in DetailTexts
    /\ fault \in {"none", "details"}
    /\ stopwords_corpus = TRUE
    /\ similarity = NoSimilarity
    /\ richer_text = ""
    /\ richer_similarity = NoSimilarity
    /\ ExtractIdle
    /\ CleanIdle
    /\ GapIdle
    /\ ReadIdle
    /\ SuggestIdle
    /\ CallIdle
    /\ PipeIdle

Details ==
    /\ pc = "start"
    /\ details' \in get_similarity_details(resume_text, job_text)
    /\ pc' = "detailed"
    /\ UNCHANGED <<exception, tok_text, tok_tried, tok_result, skill_list, skill_name,
                   statistics, keyword_score, prioritized, alternative_skills,
                   categorized, skill_suggestions,
                   cleanVars, gapVars, readVars, extractVars, scoreVars, suggestVars, pipeVars>>

NextDetails == Details

SpecDetails == InitDetails /\ [][NextDetails]_vars

\* the weight of a term in the normalised row of a text of two
TermWeight(term, text, other) ==
    LET row == DetailWeights(Analyze(text), Analyze(other))
    IN  IF term \in DOMAIN row THEN Normalised(row[term], NormSquared(row)) ELSE 0

\* whether the weight of a term in the normalised row of a text is above 0.1
Significant(term, text, other) ==
    LET row == DetailWeights(Analyze(text), Analyze(other))
    IN  term \in DOMAIN row /\ AboveThreshold(row[term], NormSquared(row))

\* C17: the three lists of terms get_similarity_details returns have no term
\* in common, hold at most 10 terms each and are in the order of the
\* descending weight; a term of the common terms is above 0.1 in both texts,
\* a term of the resume's list is above 0.1 in the resume and not in both,
\* a term of the job's list is above 0.1 in the job description and not in
\* both; when a text is empty the three lists are empty and the overall
\* score is 0.0.
C17_DetailLists ==
    pc = "detailed" =>
        LET common == details.common_terms
            resume_only == details.resume_unique_terms
            job_only == details.job_unique_terms
            InResume(t) == Significant(t, resume_text, job_text)
            InJob(t) == Significant(t, job_text, resume_text)
            Descending(list, Weight(_)) ==
                \A i, j \in DOMAIN list : i < j =>
                    list[i] # list[j] /\ Weight(list[i]) >= Weight(list[j])
            ResumeWeight(t) == TermWeight(t, resume_text, job_text)
            JobWeight(t) == TermWeight(t, job_text, resume_text)
            BothWeight(t) == ResumeWeight(t) + JobWeight(t)
        IN  /\ ToSet(common) \cap ToSet(resume_only) = {}
            /\ ToSet(common) \cap ToSet(job_only) = {}
            /\ ToSet(resume_only) \cap ToSet(job_only) = {}
            /\ Len(common) <= 10 /\ Len(resume_only) <= 10 /\ Len(job_only) <= 10
            /\ Descending(common, BothWeight)
            /\ Descending(resume_only, ResumeWeight)
            /\ Descending(job_only, JobWeight)
            /\ \A t \in ToSet(common) : InResume(t) /\ InJob(t)
            /\ \A t \in ToSet(resume_only) : InResume(t) /\ ~InJob(t)
            /\ \A t \in ToSet(job_only) : InJob(t) /\ ~InResume(t)
            /\ resume_text = "" \/ job_text = "" => details = NoDetails

\* the details of two texts have been returned with terms of the resume
\* alone, more than ten terms of the job description alone above the
\* threshold, ten of them kept, and a term of the resume below the threshold
C17_Witness ==
    /\ pc = "detailed"
    /\ fault = "none"
    /\ details.resume_unique_terms # <<>>
    /\ Len(details.job_unique_terms) = 10
    /\ Cardinality({t \in ToSet(Analyze(job_text)) :
                        /\ Significant(t, job_text, resume_text)
                        /\ ~Significant(t, resume_text, job_text)}) > 10
    /\ \E t \in ToSet(Analyze(resume_text)) : ~Significant(t, resume_text, job_text)

(***************************************************************************)
(* SpecPrioritize: prioritize_missing_skills called once.  The function    *)
(* takes any list: a skill can be in it twice, and is once in the result.  *)
(***************************************************************************)
MissingPool == {"Python", "Aws", "Sql", "Aa"}

PriorityJobs ==
    {"", "python", "sql", "python sql and PYTHON sql aws", "aaaa aws aws python"}

InitPrioritize ==
    /\ pc = "start"
    /\ skill_list \in ListsUpTo(MissingPool, MaxMissing)
    /\ job_text \in PriorityJobs
    /\ fault = "none"
    /\ stopwords_corpus = TRUE
    /\ resume_text = ""
    /\ similarity = NoSimilarity
    /\ richer_text = ""
    /\ richer_similarity = NoSimilarity
    /\ exception = "none"
    /\ tok_text = ""
    /\ tok_tried = <<>>
    /\ tok_result = <<>>
    /\ skill_name = ""
    /\ statistics = NoStatistics
    /\ details = NoDetails
    /\ keyword_score = 0
    /\ prioritized = <<>>
    /\ alternative_skills = <<>>
    /\ categorized = NoCategories
    /\ skill_suggestions = <<>>
    /\ PipeIdle
    /\ ExtractIdle
    /\ CleanIdle
    /\ GapIdle
    /\ ReadIdle
    /\ SuggestIdle

Prioritize ==
    /\ pc = "start"
    /\ prioritized' = prioritize_missing_skills(skill_list, job_text)
    /\ pc' = "prioritized"
    /\ UNCHANGED <<exception, tok_text, tok_tried, tok_result, skill_list, skill_name,
                   statistics, details, keyword_score, alternative_skills,
                   categorized, skill_suggestions,
                   cleanVars, gapVars, readVars, extractVars, scoreVars, suggestVars, pipeVars>>

NextPrioritize == Prioritize

SpecPrioritize == InitPrioritize /\ [][NextPrioritize]_vars

\* the index at which a skill is first in a list
FirstIndex(list, skill) ==
    CHOOSE i \in DOMAIN list :
        list[i] = skill /\ \A j \in 1..(i - 1) : list[j] # skill

\* C18: prioritize_missing_skills returns the missing skills in the order of
\* the descending number of occurrences of the skill, in lower case, in the
\* job description, in lower case; skills of one number keep the order they
\* have in the list given; when the list or the job description is empty
\* the list is returned unchanged.
C18_OrderedByCount ==
    pc = "prioritized" =>
        LET Occurrences(skill) == CountFrom(Lower(job_text), Lower(skill), 1)
        IN  /\ ToSet(prioritized) = ToSet(skill_list)
            /\ skill_list = <<>> \/ job_text = "" => prioritized = skill_list
            /\ skill_list # <<>> /\ job_text # "" =>
                   \A i, j \in DOMAIN prioritized : i < j =>
                       /\ Occurrences(prioritized[i]) >= Occurrences(prioritized[j])
                       /\ Occurrences(prioritized[i]) = Occurrences(prioritized[j]) =>
                              FirstIndex(skill_list, prioritized[i])
                                  < FirstIndex(skill_list, prioritized[j])

\* three skills have been put in order: the last of the list given is named
\* most often, and the two before it as often as each other
C18_Witness ==
    /\ pc = "prioritized"
    /\ Len(skill_list) = 3
    /\ prioritized = <<skill_list[3], skill_list[1], skill_list[2]>>
    /\ CountFrom(Lower(job_text), Lower(skill_list[1]), 1) > 0
    /\ skill_list[1] # skill_list[2]

(***************************************************************************)
(* Claims about the fallback of generate_improvements.                     *)
(***************************************************************************)
\* C20: when the body of generate_improvements or one of the four families
\* raises, generate_improvements raises nothing and returns a list of one
\* entry, the fallback suggestion; what was collected before the exception
\* is not in it.
C20_FallbackOnFault ==
    pc = "suggested" /\ fault \in ImprovementFaults =>
        /\ exception = "none"
        /\ suggestions
               = SetToBag({"Review and update your resume with job-specific keywords and skills"})

\* the last family raised after the first had made its suggestions
C20_Witness ==
    /\ pc = "suggested"
    /\ fault = "generate_keyword_suggestions"
    /\ Len(generate_skill_suggestions(suggest_gaps, job_text)) >= 2
    /\ BagCardinality(suggestions) = 1

(***************************************************************************)
(* SpecSkillSuggest: generate_skill_suggestions called once, on a list of  *)
(* missing skills and a job description.                                   *)
(***************************************************************************)
InitSkillSuggest ==
    /\ pc = "start"
    /\ suggest_gaps \in SuggestGaps
    /\ job_text \in SuggestJobs
    /\ fault \in {"none", "generate_skill_suggestions"}
    /\ punkt = TRUE
    /\ stopwords_corpus = TRUE
    /\ resume_text = ""
    /\ suggestions = EmptyBag
    /\ similarity = NoSimilarity
    /\ richer_text = ""
    /\ richer_similarity = NoSimilarity
    /\ skill_text = ""
    /\ found_skills = <<>>
    /\ CleanIdle
    /\ GapIdle
    /\ ReadIdle
    /\ CallIdle
    /\ PipeIdle

\* the function has no handler: what its body raises reaches the caller
SkillSuggestions ==
    /\ pc = "start"
    /\ IF fault = "generate_skill_suggestions"
       THEN /\ exception' = "generate_skill_suggestions"
            /\ pc' = "raised"
            /\ UNCHANGED skill_suggestions
       ELSE /\ skill_suggestions' = generate_skill_suggestions(suggest_gaps, job_text)
            /\ pc' = "skill_suggested"
            /\ UNCHANGED exception
    /\ UNCHANGED <<tok_text, tok_tried, tok_result, skill_list, skill_name, statistics,
                   details, keyword_score, prioritized, alternative_skills, categorized,
                   cleanVars, gapVars, readVars, extractVars, scoreVars, suggestVars, pipeVars>>

NextSkillSuggest == SkillSuggestions

SpecSkillSuggest == InitSkillSuggest /\ [][NextSkillSuggest]_vars

\* how often an entry is in a list
TimesIn(list, entry) == Cardinality({i \in DOMAIN list : list[i] = entry})

\* C19: generate_skill_suggestions makes nothing of an empty list of missing
\* skills.  Of a list of n > 0 skills it makes the suggestion to add the
\* first min(3, n) of them, once; the suggestion to highlight a skill once
\* for each of the first two entries of the list whose text, in lower case,
\* is in the job description, in lower case; the suggestion of courses
\* exactly when n > 5; and nothing else.
C19_SkillFamily ==
    pc = "skill_suggested" =>
        LET n == Len(suggest_gaps)
            add == "Add these missing skills to your resume: "
                       \o Join(", ", SubSeq(suggest_gaps, 1, Min(3, n)))
            Highlight(skill) == "Highlight your experience with " \o skill
                                    \o " more prominently"
            courses == "Consider gaining proficiency in some of the missing skills through online courses"
            Mentioned(skill) ==
                {i \in 1..Min(2, n) :
                     /\ suggest_gaps[i] = skill
                     /\ Contains(Lower(job_text), Lower(skill))}
            highlights == {i \in 1..Min(2, n) :
                              Contains(Lower(job_text), Lower(suggest_gaps[i]))}
        IN  /\ n = 0 => skill_suggestions = <<>>
            /\ n > 0 => TimesIn(skill_suggestions, add) = 1
            /\ \A skill \in ToSet(suggest_gaps) :
                   TimesIn(skill_suggestions, Highlight(skill))
                       = Cardinality(Mentioned(skill))
            /\ TimesIn(skill_suggestions, courses) = (IF n > 5 THEN 1 ELSE 0)
            /\ Len(skill_suggestions)
                   = (IF n > 0 THEN 1 ELSE 0) + Cardinality(highlights)
                         + (IF n > 5 THEN 1 ELSE 0)

\* six missing skills, of which the first is named in the job description
\* and the second is not
C19_Witness ==
    /\ pc = "skill_suggested"
    /\ Len(suggest_gaps) = 6
    /\ Len(skill_suggestions) = 3
    /\ Contains(Lower(job_text), Lower(suggest_gaps[1]))
    /\ ~Contains(Lower(job_text), Lower(suggest_gaps[2]))

(***************************************************************************)
(* SpecFault: one of the fourteen public functions is called while a       *)
(* statement of the program raises; tokenize_text is called step by step.  *)
(***************************************************************************)
\* the statements that can raise
FaultNames ==
    ToSet(CleanFaults) \cup ImprovementFaults
        \cup {"tokenize_text.word_tokenize", "tokenize_text.regex", "statistics",
              "get_readability_score", "extract_skills", "tfidf", "jaccard", "skill",
              "hybrid", "details", "calculate_keyword_match_score",
              "analyze_skill_gaps", "get_skill_overlap_analysis",
              "prioritize_missing_skills", "suggest_alternative_skills",
              "categorize_skills"}

InitFault ==
    /\ pc = "start"
    /\ fault \in FaultNames \cup {"none"}
    /\ punkt \in BOOLEAN
    /\ stopwords_corpus = TRUE
    /\ raw = "B a"
    /\ cleaned = ""
    /\ recleaned = ""
    /\ resume_text \in {"python developer", "aws developer team"}
    /\ job_text = "python aws developer team"
    /\ similarity = NoSimilarity
    /\ richer_text = ""
    /\ richer_similarity = NoSimilarity
    /\ skill_text = "Python javascript"
    /\ found_skills = <<>>
    /\ read_text = "a be."
    /\ readability = NoReadability
    /\ resume_skills = <<"Python">>
    /\ job_skills = <<"Python", "AWS">>
    /\ gaps = <<>>
    /\ overlap = NoOverlap
    /\ overlap_swapped = NoOverlap
    /\ suggest_gaps = <<"Python", "Aws">>
    /\ suggestions = EmptyBag
    /\ exception = "none"
    /\ tok_text = "Python a"
    /\ tok_tried = <<>>
    /\ tok_result = <<>>
    /\ skill_list = <<"Aws", "Python", "Teamwork">>
    /\ skill_name \in {"Python", "Rust"}
    /\ statistics = NoStatistics
    /\ details = NoDetails
    /\ keyword_score = 0
    /\ prioritized = <<>>
    /\ alternative_skills = <<>>
    /\ categorized = NoCategories
    /\ skill_suggestions = <<>>
    /\ PipeIdle

TextStatistics ==
    /\ pc = "start"
    /\ statistics' = get_text_statistics(resume_text)
    /\ pc' = "statistics"
    /\ UNCHANGED <<exception, tok_text, tok_tried, tok_result, skill_list, skill_name,
                   details, keyword_score, prioritized, alternative_skills,
                   categorized, skill_suggestions,
                   cleanVars, gapVars, readVars, extractVars, scoreVars, suggestVars, pipeVars>>

KeywordMatch ==
    /\ pc = "start"
    /\ keyword_score' \in calculate_keyword_match_score(resume_text, skill_list)
    /\ pc' = "keywords"
    /\ UNCHANGED <<exception, tok_text, tok_tried, tok_result, skill_list, skill_name,
                   statistics, details, prioritized, alternative_skills,
                   categorized, skill_suggestions,
                   cleanVars, gapVars, readVars, extractVars, scoreVars, suggestVars, pipeVars>>

\* lines 119-148: no try
Alternatives ==
    /\ pc = "start"
    /\ IF suggest_alternative_skills_raises
       THEN /\ exception' = "suggest_alternative_skills"
            /\ pc' = "raised"
            /\ UNCHANGED alternative_skills
       ELSE /\ alternative_skills' = suggest_alternative_skills(skill_name)
            /\ pc' = "alternatives"
            /\ UNCHANGED exception
    /\ UNCHANGED <<tok_text, tok_tried, tok_result, skill_list, skill_name, statistics,
                   details, keyword_score, prioritized, categorized, skill_suggestions,
                   cleanVars, gapVars, readVars, extractVars, scoreVars, suggestVars, pipeVars>>

Categorize ==
    /\ pc = "start"
    /\ categorized' = categorize_skills(skill_list)
    /\ pc' = "categorized"
    /\ UNCHANGED <<exception, tok_text, tok_tried, tok_result, skill_list, skill_name,
                   statistics, details, keyword_score, prioritized, alternative_skills,
                   skill_suggestions,
                   cleanVars, gapVars, readVars, extractVars, scoreVars, suggestVars, pipeVars>>

NextFault ==
    \/ Normalize
    \/ TokenizeGuard
    \/ TokenizeMethod1
    \/ TokenizeMethod2
    \/ TokenizeMethod3
    \/ TokenizeMethod4
    \/ TextStatistics
    \/ Readability
    \/ ExtractSkills
    \/ Score
    \/ Details
    \/ KeywordMatch
    \/ AnalyzeGaps
    \/ OverlapAnalysis
    \/ Prioritize
    \/ Alternatives
    \/ Categorize
    \/ Suggest

SpecFault == InitFault /\ [][NextFault]_vars

\* C11: none of normalize, tokenize, textStatistics, readability,
\* extractSkills, score, similarityDetails, keywordMatchScore, gaps,
\* overlapAnalysis, prioritize, alternatives, categorize and suggest lets an
\* exception reach its caller, and a function in whose body a statement
\* raises returns its default: the empty list, 0.0 or the record of zeros.
\* What clean_text returns then is the matter of C15, and the fallback
\* suggestion of generate_improvements that of C20.
C11_NoFaultPropagates ==
    /\ exception = "none"
    /\ pc # "raised"
    /\ pc = "statistics" /\ fault = "statistics" => statistics = NoStatistics
    /\ pc = "read" /\ fault = "get_readability_score" => readability = NoReadability
    /\ pc = "extracted" /\ fault = "extract_skills" => found_skills = <<>>
    /\ pc = "scored" /\ fault = "hybrid" => similarity.hybrid_score = 0
    /\ pc = "detailed" /\ fault = "details" => details = NoDetails
    /\ pc = "keywords" /\ fault = "calculate_keyword_match_score" => keyword_score = 0
    /\ pc = "gaps" /\ fault = "analyze_skill_gaps" => gaps = <<>>
    /\ pc = "overlap" /\ fault = "get_skill_overlap_analysis" => overlap = NoOverlap
    /\ pc = "categorized" /\ fault = "categorize_skills" => categorized = NoCategories

(***************************************************************************)
(* Claims about the entries of the list prioritize_missing_skills returns. *)
(***************************************************************************)
\* C26: for every list of missing skills and every job description, the
\* list prioritize_missing_skills returns is a permutation of the list given:
\* it has the same length and every skill is in it as often as in the list
\* given, also when a skill is in the list given more than once.
C26_Permutation ==
    pc = "prioritized" =>
        /\ Len(prioritized) = Len(skill_list)
        /\ ListToBag(prioritized) = ListToBag(skill_list)

\* C25: whenever the list of missing skills handed to generate_improvements
\* is not empty and no fault occurs, the returned list holds the suggestion
\* "Add these missing skills to your resume: ...", also when the four families
\* collect more than 10 different suggestions and the list is cut to 10.
C25_AddMissingSkillsKept ==
    (pc = "suggested" /\ fault = "none" /\ suggest_gaps # <<>>) =>
        ("Add these missing skills to your resume: " \o Join(", ", Take(suggest_gaps, 3)))
            \in BagToSet(suggestions)

(***************************************************************************)
(* extract_skills on the entries of the skill vocabularies                 *)
(***************************************************************************)
\* Inputs: every entry of TECHNICAL_SKILLS and of SOFT_SKILLS as a text of its
\* own, with the tokenizer data present or absent.
InitVocabulary ==
    /\ pc = "start"
    /\ punkt \in BOOLEAN
    /\ skill_text \in TECHNICAL_SKILLS \cup SOFT_SKILLS
    /\ found_skills = <<>>
    /\ CleanIdle
    /\ GapIdle
    /\ ReadIdle
    /\ ScoreIdle
    /\ SuggestIdle
    /\ CallIdle
    /\ PipeIdle

NextVocabulary == ExtractSkills

SpecVocabulary == InitVocabulary /\ [][NextVocabulary]_vars

\* C24: every entry of the technical and soft skill vocabularies is
\* detectable: extract_skills applied to a text that consists of the entry
\* alone returns a list that contains the title-cased entry, the entries with
\* punctuation ('c++', 'c#', 'node.js', 'scikit-learn') included.
C24_EntryDetected ==
    pc = "extracted" => Title(skill_text) \in ToSet(found_skills)

(***************************************************************************)
(* categorize_skills on the skills extract_skills can return               *)
(***************************************************************************)
\* the skills extract_skills can return: the entries of the two vocabularies
\* in title case
ExtractableSkills == {Title(v) : v \in TECHNICAL_SKILLS \cup SOFT_SKILLS}

\* the list of the strings of S in ascending order, as extract_skills returns
\* its skills
SortedList(S) ==
    CHOOSE list \in [1..Cardinality(S) -> S] :
        ToSet(list) = S /\ IsSortedAscending(list)

\* Inputs: the sorted lists of one to MaxSkills skills extract_skills can
\* return.
InitCategorize ==
    /\ pc = "start"
    /\ skill_list \in {SortedList(S) : S \in UNION {KSubsets(ExtractableSkills, k) : k \in 1..MaxSkills}}
    /\ fault = "none"
    /\ exception = "none"
    /\ stopwords_corpus = TRUE
    /\ resume_text = ""
    /\ job_text = ""
    /\ similarity = NoSimilarity
    /\ richer_text = ""
    /\ richer_similarity = NoSimilarity
    /\ tok_text = ""
    /\ tok_tried = <<>>
    /\ tok_result = <<>>
    /\ skill_name = ""
    /\ statistics = NoStatistics
    /\ details = NoDetails
    /\ keyword_score = 0
    /\ prioritized = <<>>
    /\ alternative_skills = <<>>
    /\ categorized = NoCategories
    /\ skill_suggestions = <<>>
    /\ PipeIdle
    /\ CleanIdle
    /\ GapIdle
    /\ ReadIdle
    /\ ExtractIdle
    /\ SuggestIdle

NextCategorize == Categorize

SpecCategorize == InitCategorize /\ [][NextCategorize]_vars

\* the number of buckets of the record categorize_skills returned that hold
\* the skill: technical categories and the list of the soft skills
Buckets(skill) ==
    Cardinality({k \in DOMAIN categorized.technical :
                     skill \in ToSet(categorized.technical[k].skills)})
        + (IF skill \in ToSet(categorized.soft) THEN 1 ELSE 0)

\* the entries of the tables of categorize_skills
CategorizedEntries ==
    categorize_soft_skills
        \cup UNION {technical_categories[k].skills : k \in DOMAIN technical_categories}

\* C27 as stated: every skill extract_skills can return is placed by
\* categorize_skills in exactly one bucket, one technical category for an
\* entry of the technical vocabulary and the list of the soft skills for an
\* entry of the soft vocabulary; none is dropped.
C27_ExactlyOneBucket ==
    pc = "categorized" =>
        \A i \in DOMAIN skill_list :
            /\ Buckets(skill_list[i]) = 1
            /\ Lower(skill_list[i]) \in SOFT_SKILLS
                   <=> skill_list[i] \in ToSet(categorized.soft)

\* C27: every skill extract_skills can return is placed by categorize_skills
\* in at most one bucket, and in exactly one when its lower case form is an
\* entry of a table of categorize_skills: one technical category for an entry
\* of the technical vocabulary, the list of the soft skills for an entry of
\* the soft vocabulary.  A skill whose lower case form is in no table is in
\* no bucket.
C27_OneBucketWhenListed ==
    pc = "categorized" =>
        \A i \in DOMAIN skill_list :
            /\ Buckets(skill_list[i]) <= 1
            /\ Buckets(skill_list[i]) = 1 <=> Lower(skill_list[i]) \in CategorizedEntries
            /\ skill_list[i] \in ToSet(categorized.soft)
                   => Lower(skill_list[i]) \in SOFT_SKILLS
            /\ (Buckets(skill_list[i]) = 1 /\ Lower(skill_list[i]) \in TECHNICAL_SKILLS)
                   => skill_list[i] \notin ToSet(categorized.soft)

\* a list of a skill of a technical category and a skill that is in no
\* table: the first is in one bucket, the second in none
C27_Witness ==
    /\ pc = "categorized"
    /\ skill_list = <<"Pandas", "Python">>
    /\ Buckets("Python") = 1
    /\ Buckets("Pandas") = 0
    /\ categorized.technical # <<>>

(***************************************************************************)
(* extract_skills with the tokens of each method of tokenize_text          *)
(***************************************************************************)
\* the methods of tokenize_text that can produce the tokens: word_tokenize
\* (methods 1 and 2), the regex tokenizer (method 3) and the split at white
\* space (method 4)
TokenizerStages == {"word_tokenize", "regex", "split"}

\* the tokens tokenize_text returns when the method is the one that succeeds
StageTokens(stage, t) ==
    IF t = "" \/ Strip(t) = "" THEN <<>>
    ELSE IF stage = "word_tokenize" THEN word_tokenize(t)
    ELSE IF stage = "regex" THEN regex_tokenize(t)
    ELSE split_tokenize(t)

\* the values extract_skills can return when the tokens are those of the
\* method: the two passes over the cleaned text and over the tokens, the
\* duplicates removed, sorted
extract_skills_with(stage, t) ==
    IF t = "" THEN {<<>>}
    ELSE LET cleaned_text == clean_text(t)
             tokens == StageTokens(stage, cleaned_text)
             matches == (TECHNICAL_SKILLS \cup SOFT_SKILLS)
                            \cap Substrings(Lower(cleaned_text))
         IN  UNION {{SortStrings(unique) :
                         unique \in Orderings(ToSet(AppendTokenSkills(TitleAll(order), tokens)))} :
                        order \in Orderings(matches)}

\* the method that produces the tokens under the environment of the call
StageUsed ==
    IF punkt THEN "word_tokenize"
    ELSE IF fault = "tokenize_text.regex" THEN "split"
    ELSE "regex"

StagePool == {"Python,", "machine", "learning", "cannot", "node.js", "c++"}

\* Inputs: the texts of at most MaxWords words of the pool, under each of
\* the three environments in which a method of tokenize_text succeeds.
InitStages ==
    /\ pc = "start"
    /\ \E env \in {[punkt |-> TRUE, fault |-> "none"],
                    [punkt |-> FALSE, fault |-> "none"],
                    [punkt |-> FALSE, fault |-> "tokenize_text.regex"]} :
           /\ punkt = env.punkt
           /\ fault = env.fault
    /\ skill_text \in Phrases(StagePool, MaxWords)
    /\ found_skills = <<>>
    /\ stopwords_corpus = TRUE
    /\ resume_text = ""
    /\ job_text = ""
    /\ similarity = NoSimilarity
    /\ richer_text = ""
    /\ richer_similarity = NoSimilarity
    /\ PipeIdle
    /\ CleanIdle
    /\ GapIdle
    /\ ReadIdle
    /\ SuggestIdle
    /\ CallIdle

\* extract_skills is called, and the result it has with the tokens of each
\* method is recorded beside it
ExtractStages ==
    /\ pc = "start"
    /\ found_skills' \in extract_skills(skill_text)
    /\ stage_results' = [stage \in TokenizerStages |-> extract_skills_with(stage, skill_text)]
    /\ pc' = "extracted"
    /\ UNCHANGED <<punkt, skill_text, cleanVars, gapVars, readVars, scoreVars, suggestVars,
                   callVars, swapped_similarity, file_text, uploaded_file, analyze_button,
                   extractable, cleaned_resume,
                   cleaned_job, invoked, displayed, structure_suggestions, technical_skills,
                   soft_skills, corpus_stopwords, local_stop_words, filtered_tokens, calls>>

NextStages == ExtractStages

SpecStages == InitStages /\ [][NextStages]_vars

\* the skills the pass over the cleaned text finds: the entries of the
\* vocabularies that are a substring of it, in title case
SubstringPass(t) ==
    {Title(v) : v \in (TECHNICAL_SKILLS \cup SOFT_SKILLS)
                        \cap Substrings(Lower(clean_text(t)))}

\* C23: in extract_skills the pass over the tokens never adds a skill that
\* the pass over the substrings has not found, so for every text the result
\* of extract_skills is the same whichever method of tokenize_text produced
\* the tokens.
C23_TokenPassAddsNothing ==
    pc = "extracted" =>
        /\ ToSet(found_skills) = SubstringPass(skill_text)
        /\ found_skills \in stage_results[StageUsed]
        /\ \A stage \in TokenizerStages : stage_results[stage] = {found_skills}

\* a text with a skill whose tokens differ from method to method, extracted
\* with the tokens of the last method of the chain
C23_Witness ==
    /\ pc = "extracted"
    /\ StageUsed = "split"
    /\ found_skills # <<>>
    /\ LET cleaned_text == clean_text(skill_text)
       IN  /\ word_tokenize(cleaned_text) # regex_tokenize(cleaned_text)
           /\ regex_tokenize(cleaned_text) # split_tokenize(cleaned_text)
           /\ \E i \in DOMAIN split_tokenize(cleaned_text) :
                  split_tokenize(cleaned_text)[i] \in TECHNICAL_SKILLS

(***************************************************************************)
(* calculate_skill_similarity with its arguments swapped and with a resume *)
(* of more skills                                                          *)
(***************************************************************************)
SkillScorePool == {"python", "javascript", "mysql", "team"}

SkillScoreJobs == {"python java sql", "javascript mysql aws", "team"}

\* what is left of a call of calculate_similarity_score when only its skill
\* score is computed
SkillScoreOnly(score) == [NoSimilarity EXCEPT !.skill_score = score]

\* Inputs: a resume of at most MaxScoreWords words of the pool, a job
\* description, and the resume with one more word of the pool.
InitSkillScore ==
    /\ pc = "start"
    /\ resume_text \in Phrases(SkillScorePool, MaxScoreWords)
    /\ job_text \in SkillScoreJobs
    /\ \E word \in SkillScorePool :
           richer_text = IF resume_text = "" THEN word ELSE resume_text \o " " \o word
    /\ similarity = NoSimilarity
    /\ richer_similarity = NoSimilarity
    /\ stopwords_corpus = TRUE
    /\ fault = "none"
    /\ PipeIdle
    /\ ExtractIdle
    /\ CleanIdle
    /\ GapIdle
    /\ ReadIdle
    /\ SuggestIdle
    /\ CallIdle

SkillScore ==
    /\ pc = "start"
    /\ \E score \in calculate_skill_similarity(resume_text, job_text) :
           similarity' = SkillScoreOnly(score)
    /\ pc' = "scored"
    /\ UNCHANGED <<stopwords_corpus, fault, resume_text, job_text, richer_text,
                   richer_similarity, cleanVars, gapVars, readVars, extractVars,
                   suggestVars, callVars, pipeVars>>

SkillScoreSwapped ==
    /\ pc = "scored"
    /\ \E score \in calculate_skill_similarity(job_text, resume_text) :
           swapped_similarity' = SkillScoreOnly(score)
    /\ pc' = "swapped"
    /\ UNCHANGED <<cleanVars, gapVars, readVars, extractVars, scoreVars, suggestVars,
                   callVars, stage_results, file_text, uploaded_file, analyze_button,
                   extractable, cleaned_resume,
                   cleaned_job, invoked, displayed, structure_suggestions, technical_skills,
                   soft_skills, corpus_stopwords, local_stop_words, filtered_tokens, calls>>

SkillScoreRicher ==
    /\ pc = "swapped"
    /\ \E score \in calculate_skill_similarity(richer_text, job_text) :
           richer_similarity' = SkillScoreOnly(score)
    /\ pc' = "compared"
    /\ UNCHANGED <<stopwords_corpus, fault, resume_text, job_text, richer_text,
                   similarity, cleanVars, gapVars, readVars, extractVars,
                   suggestVars, callVars, pipeVars>>

NextSkillScore == SkillScore \/ SkillScoreSwapped \/ SkillScoreRicher

SpecSkillScore == InitSkillScore /\ [][NextSkillScore]_vars

\* C29: the skill score is the same when its two texts are swapped, and for
\* a fixed job description a resume that has the skills of another resume
\* and more skills, none of which is a skill of the job, does not score
\* higher than the other resume.
C29_SymmetricAndNoGainFromOtherSkills ==
    pc = "compared" =>
        /\ swapped_similarity.skill_score = similarity.skill_score
        /\ ( /\ SkillSet(resume_text) \subseteq SkillSet(richer_text)
              /\ (SkillSet(richer_text) \ SkillSet(resume_text)) \cap SkillSet(job_text) = {} )
               => richer_similarity.skill_score <= similarity.skill_score

\* a resume that shares three skills with the job, and the same resume with
\* one more skill that the job does not name, which scores lower
C29_Witness ==
    /\ pc = "compared"
    /\ Cardinality(SkillSet(resume_text) \cap SkillSet(job_text)) >= 3
    /\ SkillSet(richer_text) # SkillSet(resume_text)
    /\ (SkillSet(richer_text) \ SkillSet(resume_text)) \cap SkillSet(job_text) = {}
    /\ swapped_similarity.skill_score = similarity.skill_score
    /\ 0 < richer_similarity.skill_score
    /\ richer_similarity.skill_score < similarity.skill_score

(***************************************************************************)
(* The analysis of main, src/app.py:145-210: one run of the page from the  *)
(* inputs of the sidebar to what the page shows.                           *)
(***************************************************************************)
\* str.endswith
EndsWith(s, suffix) ==
    Len(s) >= Len(suffix) /\ SubSeq(s, Len(s) - Len(suffix) + 1, Len(s)) = suffix

\* extract_text_from_file, src/utils/text_extractor.py:11-81: the stripped
\* text of a PDF or DOCX file; the empty text when the reader of the format
\* raises and when the file is of another format
extract_text_from_file(name, text) ==
    IF (EndsWith(Lower(name), ".pdf") \/ EndsWith(Lower(name), ".docx")) /\ extractable
    THEN Strip(text)
    ELSE ""

\* the text of n copies of a word, separated by a space
RECURSIVE Repeated(_, _)
Repeated(word, n) ==
    IF n <= 1 THEN word ELSE Repeated(word, n - 1) \o " " \o word

\* the number of words per sentence above which
\* generate_structure_suggestions finds the sentences complex
ComplexSentence == 25

\* the texts of the uploaded files: without text, of white space, of
\* punctuation, of sentences, of ComplexSentence words and of one word more
PipelineFiles ==
    {"", "  ", "!!!", " Python developer. Led a team. ", "sql, aws",
     Repeated("a", ComplexSentence), Repeated("a", ComplexSentence + 1)}

PipelineJobs == {"", "Python developer, team lead. Sql."}

\* the faults of a run: none, get_readability_score raises, display_results
\* raises
PipelineFaults == {"none", "get_readability_score", "display_results"}

InitPipeline ==
    /\ pc = "start"
    /\ uploaded_file \in {"", "cv.pdf", "CV.DOCX", "cv.txt"}
    /\ analyze_button \in BOOLEAN
    /\ extractable \in BOOLEAN
    /\ file_text \in PipelineFiles
    /\ job_text \in PipelineJobs
    /\ fault \in PipelineFaults
    /\ stopwords_corpus = TRUE
    /\ resume_text = ""
    /\ similarity = NoSimilarity
    /\ richer_text = ""
    /\ richer_similarity = NoSimilarity
    /\ swapped_similarity = NoSimilarity
    /\ stage_results = <<>>
    /\ cleaned_resume = ""
    /\ cleaned_job = ""
    /\ invoked = <<>>
    /\ displayed = "nothing"
    /\ structure_suggestions = <<>>
    /\ technical_skills = TECHNICAL_SKILLS
    /\ soft_skills = SOFT_SKILLS
    /\ corpus_stopwords = NLTK_STOPWORDS
    /\ local_stop_words = {}
    /\ filtered_tokens = <<>>
    /\ calls = 0
    /\ ExtractIdle
    /\ CleanIdle
    /\ GapIdle
    /\ ReadIdle
    /\ SuggestIdle
    /\ CallIdle

\* the variables a step of the run leaves alone, besides those it names
PipelineFrame ==
    <<cleanVars, extractVars, callVars, suggest_gaps, overlap, overlap_swapped,
      stopwords_corpus, fault, job_text, richer_text, richer_similarity,
      swapped_similarity, stage_results, file_text, uploaded_file, analyze_button,
      extractable, technical_skills, soft_skills, corpus_stopwords, local_stop_words,
      filtered_tokens, calls>>

\* line 145: without a file, a job description or the button the welcome
\* page is shown
Welcome ==
    /\ pc = "start"
    /\ uploaded_file = "" \/ job_text = "" \/ ~analyze_button
    /\ displayed' = "welcome"
    /\ pc' = "done"
    /\ UNCHANGED <<PipelineFrame, resume_text, cleaned_resume, cleaned_job, similarity,
                   resume_skills, job_skills, gaps, suggestions, read_text, readability,
                   structure_suggestions, invoked>>

\* line 174
ExtractText ==
    /\ pc = "start"
    /\ ~(uploaded_file = "" \/ job_text = "" \/ ~analyze_button)
    /\ resume_text' = extract_text_from_file(uploaded_file, file_text)
    /\ pc' = "text_extracted"
    /\ UNCHANGED <<PipelineFrame, cleaned_resume, cleaned_job, similarity,
                   resume_skills, job_skills, gaps, suggestions, read_text, readability,
                   structure_suggestions, invoked, displayed>>

\* lines 176-178: the error message and the return
RejectBlank ==
    /\ pc = "text_extracted"
    /\ Strip(resume_text) = ""
    /\ displayed' = "extraction_error"
    /\ pc' = "done"
    /\ UNCHANGED <<PipelineFrame, resume_text, cleaned_resume, cleaned_job, similarity,
                   resume_skills, job_skills, gaps, suggestions, read_text, readability,
                   structure_suggestions, invoked>>

\* a slip of main: the resume is cleaned whether or not it has text
CleanResume_unguarded ==
    /\ pc = "text_extracted"
    /\ cleaned_resume' = clean_text(resume_text)
    /\ invoked' = Append(invoked, "clean_text")
    /\ pc' = "resume_cleaned"
    /\ UNCHANGED <<PipelineFrame, resume_text, cleaned_job, similarity,
                   resume_skills, job_skills, gaps, suggestions, read_text, readability,
                   structure_suggestions, displayed>>

\* line 181
CleanResume ==
    /\ pc = "text_extracted"
    /\ Strip(resume_text) # ""
    /\ cleaned_resume' = clean_text(resume_text)
    /\ invoked' = Append(invoked, "clean_text")
    /\ pc' = "resume_cleaned"
    /\ UNCHANGED <<PipelineFrame, resume_text, cleaned_job, similarity,
                   resume_skills, job_skills, gaps, suggestions, read_text, readability,
                   structure_suggestions, displayed>>

\* line 182
CleanJob ==
    /\ pc = "resume_cleaned"
    /\ cleaned_job' = clean_text(job_text)
    /\ invoked' = Append(invoked, "clean_text")
    /\ pc' = "job_cleaned"
    /\ UNCHANGED <<PipelineFrame, resume_text, cleaned_resume, similarity,
                   resume_skills, job_skills, gaps, suggestions, read_text, readability,
                   structure_suggestions, displayed>>

\* line 185
ScoreCleaned ==
    /\ pc = "job_cleaned"
    /\ similarity' \in calculate_similarity_score(cleaned_resume, cleaned_job)
    /\ invoked' = Append(invoked, "calculate_similarity_score")
    /\ pc' = "scored"
    /\ UNCHANGED <<PipelineFrame, resume_text, cleaned_resume, cleaned_job,
                   resume_skills, job_skills, gaps, suggestions, read_text, readability,
                   structure_suggestions, displayed>>

\* line 188
ResumeSkills ==
    /\ pc = "scored"
    /\ resume_skills' \in extract_skills(cleaned_resume)
    /\ invoked' = Append(invoked, "extract_skills")
    /\ pc' = "resume_skills"
    /\ UNCHANGED <<PipelineFrame, resume_text, cleaned_resume, cleaned_job, similarity,
                   job_skills, gaps, suggestions, read_text, readability,
                   structure_suggestions, displayed>>

\* line 189
JobSkills ==
    /\ pc = "resume_skills"
    /\ job_skills' \in extract_skills(cleaned_job)
    /\ invoked' = Append(invoked, "extract_skills")
    /\ pc' = "job_skills"
    /\ UNCHANGED <<PipelineFrame, resume_text, cleaned_resume, cleaned_job, similarity,
                   resume_skills, gaps, suggestions, read_text, readability,
                   structure_suggestions, displayed>>

\* line 192
SkillGaps ==
    /\ pc = "job_skills"
    /\ gaps' \in analyze_skill_gaps(resume_skills, job_skills)
    /\ invoked' = Append(invoked, "analyze_skill_gaps")
    /\ pc' = "gaps"
    /\ UNCHANGED <<PipelineFrame, resume_text, cleaned_resume, cleaned_job, similarity,
                   resume_skills, job_skills, suggestions, read_text, readability,
                   structure_suggestions, displayed>>

\* line 195: generate_improvements on the cleaned texts.  The readability
\* scores it computes (improvement_suggester.py:31) and the suggestions of its
\* structure family (lines 44-45) are recorded beside the list it returns
Improve ==
    /\ pc = "gaps"
    /\ suggestions' \in generate_improvements(cleaned_resume, cleaned_job, gaps)
    /\ read_text' = cleaned_resume
    /\ \E readability_scores \in get_readability_score(cleaned_resume) :
           /\ readability' = readability_scores
           /\ structure_suggestions' =
                  generate_structure_suggestions(get_text_statistics(cleaned_resume),
                                                 readability_scores)
    /\ invoked' = Append(invoked, "generate_improvements")
    /\ pc' = "improved"
    /\ UNCHANGED <<PipelineFrame, resume_text, cleaned_resume, cleaned_job, similarity,
                   resume_skills, job_skills, gaps, displayed>>

\* lines 198-210: the results are displayed; the handler of main shows an
\* error when display_results raises
DisplayResults ==
    /\ pc = "improved"
    /\ displayed' = IF fault = "display_results" THEN "analysis_error" ELSE "results"
    /\ pc' = "done"
    /\ UNCHANGED <<PipelineFrame, resume_text, cleaned_resume, cleaned_job, similarity,
                   resume_skills, job_skills, gaps, suggestions, read_text, readability,
                   structure_suggestions, invoked>>

NextPipeline ==
    \/ Welcome
    \/ ExtractText
    \/ RejectBlank
    \/ CleanResume
    \/ CleanJob
    \/ ScoreCleaned
    \/ ResumeSkills
    \/ JobSkills
    \/ SkillGaps
    \/ Improve
    \/ DisplayResults

SpecPipeline == InitPipeline /\ [][NextPipeline]_vars

\* the core operations of a complete run, in the order of their calls
CoreOperations ==
    <<"clean_text", "clean_text", "calculate_similarity_score", "extract_skills",
      "extract_skills", "analyze_skill_gaps", "generate_improvements">>

\* a run of the analysis: a file, a job description and the button
Submitted == uploaded_file # "" /\ job_text # "" /\ analyze_button

\* C21: when the extraction of the text of the uploaded resume gives an empty
\* text or white space only, the run ends with the error message of the
\* extraction, no core operation (clean_text, calculate_similarity_score,
\* extract_skills, analyze_skill_gaps, generate_improvements) is invoked and
\* no results are displayed; in every other run all five are invoked before
\* the results are displayed.
C21_BlankHaltsElseAllInvoked ==
    /\ (pc \notin {"start"} /\ Submitted /\ Strip(resume_text) = "")
           => invoked = <<>> /\ displayed \in {"nothing", "extraction_error"}
    /\ (pc = "done" /\ Submitted /\ Strip(resume_text) = "")
           => displayed = "extraction_error"
    /\ (pc = "done" /\ Submitted /\ Strip(resume_text) # "")
           => /\ invoked = CoreOperations
              /\ displayed = IF fault = "display_results" THEN "analysis_error" ELSE "results"
    /\ displayed = "results" => invoked = CoreOperations
    /\ displayed # "results" \/ pc = "done"
    /\ ~Submitted => invoked = <<>> /\ displayed \in {"nothing", "welcome"}

\* a run stopped at a readable file of white space
C21_Witness ==
    /\ pc = "done"
    /\ Submitted
    /\ extractable
    /\ uploaded_file = "cv.pdf"
    /\ file_text = "  "
    /\ displayed = "extraction_error"
    /\ invoked = <<>>

InitFrame ==
    /\ pc = "start"
    /\ fault \in {"none", "extract_skills", "tokenize_text.regex"}
    /\ punkt \in BOOLEAN
    /\ stopwords_corpus \in BOOLEAN
    /\ raw = "B a"
    /\ cleaned = ""
    /\ recleaned = ""
    /\ resume_text = "python developer"
    /\ job_text = "python aws developer team"
    /\ similarity = NoSimilarity
    /\ richer_text = ""
    /\ richer_similarity = NoSimilarity
    /\ skill_text = "Python javascript"
    /\ found_skills = <<>>
    /\ read_text = "a be."
    /\ readability = NoReadability
    /\ resume_skills = <<"Python">>
    /\ job_skills = <<"Python", "AWS">>
    /\ gaps = <<>>
    /\ overlap = NoOverlap
    /\ overlap_swapped = NoOverlap
    /\ suggest_gaps = <<"Python", "Aws">>
    /\ suggestions = EmptyBag
    /\ exception = "none"
    /\ tok_text = "Python also may a"
    /\ tok_tried = <<>>
    /\ tok_result = <<>>
    /\ skill_list = <<"Aws", "Python", "Teamwork">>
    /\ skill_name = "Python"
    /\ statistics = NoStatistics
    /\ details = NoDetails
    /\ keyword_score = 0
    /\ prioritized = <<>>
    /\ alternative_skills = <<>>
    /\ categorized = NoCategories
    /\ skill_suggestions = <<>>
    /\ PipeIdle

\* the variables a call of remove_stopwords leaves alone, the shared data
\* apart
StopwordsFrame ==
    <<cleanVars, gapVars, readVars, extractVars, scoreVars, suggestVars, exception,
      tok_text, tok_tried, tok_result, skill_list, skill_name, statistics, details,
      keyword_score, prioritized, alternative_skills, categorized, skill_suggestions,
      swapped_similarity, stage_results, file_text, uploaded_file, analyze_button,
      extractable, cleaned_resume, cleaned_job, invoked, displayed,
      structure_suggestions, technical_skills, soft_skills, calls>>

\* a slip of remove_stopwords: the custom stop words are added to the list of
\* the corpus itself
RemoveStopwords_updates_corpus ==
    /\ pc = "returned"
    /\ filtered_tokens' = remove_stopwords(tok_result)
    /\ IF stopwords_corpus
       THEN /\ corpus_stopwords' = corpus_stopwords \cup custom_stopwords
            /\ local_stop_words' = corpus_stopwords'
       ELSE UNCHANGED <<corpus_stopwords, local_stop_words>>
    /\ pc' = "filtered"
    /\ UNCHANGED StopwordsFrame

\* remove_stopwords on the tokens tokenize_text returned,
\* src/utils/nlp_processor.py:142-152: stop_words is a new set made of the
\* words of the corpus (line 143), and the custom stop words are added to
\* that set (line 146); when the corpus is missing line 143 raises and no set
\* is made
RemoveStopwords ==
    /\ pc = "returned"
    /\ filtered_tokens' = remove_stopwords(tok_result)
    /\ IF stopwords_corpus
       THEN /\ local_stop_words' = corpus_stopwords \cup custom_stopwords
            /\ corpus_stopwords' = corpus_stopwords
       ELSE UNCHANGED <<corpus_stopwords, local_stop_words>>
    /\ pc' = "filtered"
    /\ UNCHANGED StopwordsFrame

\* the call has ended and the next one begins, on the same inputs
NextCall ==
    /\ pc \notin {"start", "method1", "method2", "method3", "method4"}
    /\ calls + 1 < MaxCalls
    /\ calls' = calls + 1
    /\ pc' = "start"
    /\ tok_tried' = <<>>
    /\ exception' = "none"
    /\ UNCHANGED <<cleanVars, gapVars, readVars, extractVars, scoreVars, suggestVars,
                   tok_text, tok_result, skill_list, skill_name, statistics, details,
                   keyword_score, prioritized, alternative_skills, categorized,
                   skill_suggestions, swapped_similarity, stage_results, file_text,
                   uploaded_file, analyze_button,
                   extractable, cleaned_resume, cleaned_job, invoked, displayed,
                   structure_suggestions, technical_skills, soft_skills, corpus_stopwords,
                   local_stop_words, filtered_tokens>>

NextFrame ==
    \/ Normalize
    \/ TokenizeGuard
    \/ TokenizeMethod1
    \/ TokenizeMethod2
    \/ TokenizeMethod3
    \/ TokenizeMethod4
    \/ RemoveStopwords
    \/ TextStatistics
    \/ Readability
    \/ ExtractSkills
    \/ Score
    \/ Details
    \/ KeywordMatch
    \/ AnalyzeGaps
    \/ OverlapAnalysis
    \/ Prioritize
    \/ Alternatives
    \/ Categorize
    \/ Suggest
    \/ NextCall

SpecFrame == InitFrame /\ [][NextFrame]_vars

\* C22: over any sequence of calls of the operations the vocabularies
\* TECHNICAL_SKILLS and SOFT_SKILLS and the stop words of the corpus stay as
\* they are: no step adds to them, removes from them or replaces them, and no
\* step changes a list handed to an operation as an argument.
C22_SharedDataUnchanged ==
    [][/\ technical_skills' = technical_skills
       /\ soft_skills' = soft_skills
       /\ corpus_stopwords' = corpus_stopwords
       /\ resume_skills' = resume_skills
       /\ job_skills' = job_skills
       /\ skill_list' = skill_list
       /\ suggest_gaps' = suggest_gaps
       /\ pc = "returned" => tok_result' = tok_result]_vars

\* the second call of a sequence is remove_stopwords: its own set has the
\* custom stop words, the corpus does not, and its argument is as it was
C22_Witness ==
    /\ pc = "filtered"
    /\ calls = 1
    /\ found_skills # <<>>
    /\ custom_stopwords \subseteq local_stop_words
    /\ "also" \notin corpus_stopwords
    /\ corpus_stopwords = NLTK_STOPWORDS
    /\ technical_skills = TECHNICAL_SKILLS
    /\ soft_skills = SOFT_SKILLS
    /\ Len(filtered_tokens) < Len(tok_result)

====
